---- MODULE Spec2Model ----
(***************************************************************************)
(* RescueX: the multi-hazard risk-scoring engine (DisasterPredictor) and   *)
(* its learning-coefficient loop.                                          *)
(*                                                                         *)
(* Numbers.  The program computes with Python floats.  The model computes  *)
(* the same expressions over exact rationals: a rational is a reduced      *)
(* pair <<n, d>> with d > 0.  Integer-valued inputs (weather attributes)   *)
(* are kept as integers and converted where the code mixes them with       *)
(* fractions.  Float rounding (e.g. 0.5 + 0.2 + 0.2 + 0.1 evaluating to    *)
(* 0.9999999999999999) is not modelled.                                    *)
(***************************************************************************)
EXTENDS Integers, Sequences, FiniteSets, TLC

VARIABLES
    learning_coefficients,  \* self.learning_coefficients: family -> rational
    history,                \* rows of the predictions table, newest first
    learn_calls,            \* number of learn_from_history calls made
    coef_before,            \* learning_coefficients when the last learn call began
    last_op,                \* the last operation performed
    raw_weather_data,       \* the argument of the pending predict_disasters call
    weather_data,           \* the sanitized observation of the last call
    risks,                  \* the five risk locals of the last call
    predictions,            \* the list the last call returned
    outcome,                \* result of the last call: none / returned / raised
    location_input,         \* the argument of the last correct_location_name call
    corrected_location,     \* what that call returned
    pc,                     \* where each /api/predict request stands
    running,                \* the request the event loop is running, 0 if none
    local,                  \* the locals of each request's learn_from_history call
    prediction_feedback     \* rows of the prediction_feedback table, oldest first

vars == <<learning_coefficients, history, learn_calls, coef_before, last_op,
          raw_weather_data, weather_data, risks, predictions, outcome,
          location_input, corrected_location, pc, running, local,
          prediction_feedback>>

(***************************************************************************)
(* Bounds of the model.                                                    *)
(***************************************************************************)
MaxHistory == 6
MaxLearnCalls == 2
MaxRepeat == 14
MaxKeys == 3
MaxRequests == 2
MaxPredicts == 6
MaxFeedback == 1

(***************************************************************************)
(* Exact rational arithmetic standing for the float arithmetic.            *)
(***************************************************************************)
Abs(x) == IF x < 0 THEN -x ELSE x

RECURSIVE GCD(_, _)
GCD(a, b) == IF b = 0 THEN a ELSE GCD(b, a % b)

Frac(n, d) ==
    LET g == GCD(Abs(n), Abs(d))
        s == IF d < 0 THEN -1 ELSE 1
    IN  <<(s * n) \div g, (s * d) \div g>>

R(n) == <<n, 1>>

RAdd(a, b) ==
    LET g == GCD(a[2], b[2])
    IN  Frac(a[1] * (b[2] \div g) + b[1] * (a[2] \div g), (a[2] \div g) * b[2])

RNeg(a) == <<-a[1], a[2]>>

RSub(a, b) == RAdd(a, RNeg(b))

RMul(a, b) ==
    LET g1 == GCD(Abs(a[1]), b[2])
        g2 == GCD(Abs(b[1]), a[2])
        h1 == IF g1 = 0 THEN 1 ELSE g1
        h2 == IF g2 = 0 THEN 1 ELSE g2
    IN  Frac((a[1] \div h1) * (b[1] \div h2), (a[2] \div h2) * (b[2] \div h1))

RLt(a, b) == a[1] * b[2] < b[1] * a[2]

RLe(a, b) == a[1] * b[2] <= b[1] * a[2]

RMin(a, b) == IF RLt(b, a) THEN b ELSE a

RMax(a, b) == IF RLt(a, b) THEN b ELSE a

IsRat(a) == a[1] \in Int /\ a[2] \in Nat \ {0} /\ GCD(Abs(a[1]), a[2]) = 1

RSum(s) ==
    LET RECURSIVE Go(_)
        Go(i) == IF i = 0 THEN R(0) ELSE RAdd(Go(i - 1), s[i])
    IN  Go(Len(s))

(***************************************************************************)
(* Strings.  A disaster_type label is a TLA+ string; Chars gives the       *)
(* characters of each label the predictor can emit, so that str.lower()    *)
(* and the substring tests of _map_to_category are computed, not tabled.   *)
(***************************************************************************)
Chars ==
    ("Severe Flood" :> <<"S","e","v","e","r","e"," ","F","l","o","o","d">>)
 @@ ("Moderate Flood" :> <<"M","o","d","e","r","a","t","e"," ","F","l","o","o","d">>)
 @@ ("Minor Flood" :> <<"M","i","n","o","r"," ","F","l","o","o","d">>)
 @@ ("Flash Flood" :> <<"F","l","a","s","h"," ","F","l","o","o","d">>)
 @@ ("Urban Flooding" :> <<"U","r","b","a","n"," ","F","l","o","o","d","i","n","g">>)
 @@ ("Extreme Heat Wave" :> <<"E","x","t","r","e","m","e"," ","H","e","a","t"," ","W","a","v","e">>)
 @@ ("Severe Heat Wave" :> <<"S","e","v","e","r","e"," ","H","e","a","t"," ","W","a","v","e">>)
 @@ ("Heat Wave" :> <<"H","e","a","t"," ","W","a","v","e">>)
 @@ ("Severe Storm System" :> <<"S","e","v","e","r","e"," ","S","t","o","r","m"," ","S","y","s","t","e","m">>)
 @@ ("Moderate Storm" :> <<"M","o","d","e","r","a","t","e"," ","S","t","o","r","m">>)
 @@ ("Tornado Warning" :> <<"T","o","r","n","a","d","o"," ","W","a","r","n","i","n","g">>)
 @@ ("Tornado Watch" :> <<"T","o","r","n","a","d","o"," ","W","a","t","c","h">>)
 @@ ("Winter Storm" :> <<"W","i","n","t","e","r"," ","S","t","o","r","m">>)
 @@ ("Blizzard" :> <<"B","l","i","z","z","a","r","d">>)
 @@ ("Minor Earthquake" :> <<"M","i","n","o","r"," ","E","a","r","t","h","q","u","a","k","e">>)
 @@ ("Moderate Earthquake" :> <<"M","o","d","e","r","a","t","e"," ","E","a","r","t","h","q","u","a","k","e">>)
 @@ ("Major Earthquake" :> <<"M","a","j","o","r"," ","E","a","r","t","h","q","u","a","k","e">>)
 @@ ("Extreme Earthquake" :> <<"E","x","t","r","e","m","e"," ","E","a","r","t","h","q","u","a","k","e">>)
 @@ ("Tsunami" :> <<"T","s","u","n","a","m","i">>)
 @@ ("Extreme Fire Danger" :> <<"E","x","t","r","e","m","e"," ","F","i","r","e"," ","D","a","n","g","e","r">>)
 @@ ("High Fire Danger" :> <<"H","i","g","h"," ","F","i","r","e"," ","D","a","n","g","e","r">>)
 @@ ("Moderate Fire Danger" :> <<"M","o","d","e","r","a","t","e"," ","F","i","r","e"," ","D","a","n","g","e","r">>)
 @@ ("Hazardous Air Quality Emergency" :> <<"H","a","z","a","r","d","o","u","s"," ","A","i","r"," ","Q","u","a","l","i","t","y"," ","E","m","e","r","g","e","n","c","y">>)
 @@ ("Very Unhealthy Air Quality" :> <<"V","e","r","y"," ","U","n","h","e","a","l","t","h","y"," ","A","i","r"," ","Q","u","a","l","i","t","y">>)
 @@ ("Unhealthy Air Quality" :> <<"U","n","h","e","a","l","t","h","y"," ","A","i","r"," ","Q","u","a","l","i","t","y">>)
 @@ ("No Significant Hazards" :> <<"N","o"," ","S","i","g","n","i","f","i","c","a","n","t"," ","H","a","z","a","r","d","s">>)

UpperToLower ==
    [A |-> "a", B |-> "b", C |-> "c", D |-> "d", E |-> "e", F |-> "f", G |-> "g", H |-> "h", I |-> "i", J |-> "j", K |-> "k", L |-> "l", M |-> "m",
     N |-> "n", O |-> "o", P |-> "p", Q |-> "q", R |-> "r", S |-> "s", T |-> "t", U |-> "u", V |-> "v", W |-> "w", X |-> "x", Y |-> "y", Z |-> "z"]

LowerChar(c) == IF c \in DOMAIN UpperToLower THEN UpperToLower[c] ELSE c

Lower(s) == [i \in 1..Len(s) |-> LowerChar(s[i])]

\* Python's `term in text` on strings
Contains(text, term) ==
    \E i \in 1..(Len(text) - Len(term) + 1) :
        SubSeq(text, i, i + Len(term) - 1) = term

AnyTermIn(terms, text) == \E k \in 1..Len(terms) : Contains(text, terms[k])

Terms_flood == <<<<"f","l","o","o","d">>, <<"r","a","i","n">>, <<"w","a","t","e","r">>>>
Terms_heat_wave == <<<<"h","e","a","t">>, <<"h","o","t">>>>
Terms_storm == <<<<"s","t","o","r","m">>, <<"h","u","r","r","i","c","a","n","e">>, <<"c","y","c","l","o","n","e">>, <<"t","y","p","h","o","o","n">>>>
Terms_wildfire == <<<<"f","i","r","e">>, <<"w","i","l","d","f","i","r","e">>>>
Terms_tornado == <<<<"t","o","r","n","a","d","o">>>>
Terms_earthquake == <<<<"e","a","r","t","h","q","u","a","k","e">>, <<"s","e","i","s","m","i","c">>>>
Terms_air_quality == <<<<"a","i","r">>, <<"p","o","l","l","u","t","i","o","n">>>>

\* _map_to_category: the first family whose keyword occurs in the label
MapToCategory(disaster_type) ==
    LET t == Lower(disaster_type)
    IN  IF AnyTermIn(Terms_flood, t) THEN "flood"
        ELSE IF AnyTermIn(Terms_heat_wave, t) THEN "heat_wave"
        ELSE IF AnyTermIn(Terms_storm, t) THEN "storm"
        ELSE IF AnyTermIn(Terms_wildfire, t) THEN "wildfire"
        ELSE IF AnyTermIn(Terms_tornado, t) THEN "tornado"
        ELSE IF AnyTermIn(Terms_earthquake, t) THEN "earthquake"
        ELSE IF AnyTermIn(Terms_air_quality, t) THEN "air_quality"
        ELSE "other"

(***************************************************************************)
(* The learning coefficients and learn_from_history.                       *)
(***************************************************************************)
Families ==
    {"flood", "heat_wave", "storm", "wildfire", "tornado", "earthquake", "air_quality"}

\* DisasterPredictor.__init__
InitCoefficients == [f \in Families |-> R(1)]

CoefMin == Frac(1, 2)

CoefMax == Frac(3, 2)

\* the accuracy column is REAL DEFAULT NULL
NoAccuracy == <<>>

HistoryLimit == 100

MinHistory == 5

\* storage.get_recent_predictions(limit): newest rows first, at most `limit`
GetRecentPredictions(limit) ==
    SubSeq(history, 1, IF Len(history) < limit THEN Len(history) ELSE limit)

\* mutant: a record contributing its accuracy once per category
RecordAccuraciesOncePerRecord(record, category) ==
    LET hits == SelectSeq(record.predictions,
                    LAMBDA p : MapToCategory(Lower(Chars[p.disaster_type])) = category)
    IN  IF record.accuracy = NoAccuracy \/ hits = <<>> THEN <<>>
        ELSE <<record.accuracy>>

\* the accuracies one record appends to accuracy_by_type[category]
RecordAccuracies(record, category) ==
    LET hits == SelectSeq(record.predictions,
                    LAMBDA p : MapToCategory(Lower(Chars[p.disaster_type])) = category)
    IN  IF record.accuracy = NoAccuracy THEN <<>>
        ELSE [i \in 1..Len(hits) |-> record.accuracy]

RECURSIVE CollectAccuracies(_, _, _)
CollectAccuracies(records, category, n) ==
    IF n = 0 THEN <<>>
    ELSE CollectAccuracies(records, category, n - 1)
            \o RecordAccuracies(records[n], category)

\* accuracy_by_type after the collection loop: its keys are the categories
\* of the findings of the feedback-bearing records
AccuracyByType(records) ==
    LET keys == UNION {
                  {MapToCategory(Lower(Chars[records[i].predictions[j].disaster_type])) :
                      j \in 1..Len(records[i].predictions)} :
                  i \in {a \in 1..Len(records) : records[a].accuracy # NoAccuracy}}
    IN  [c \in keys |-> CollectAccuracies(records, c, Len(records))]

\* mutant: the adjustment without the 0.5 centring
AdjustmentUncentred(accuracies) ==
    RMul(RMul(RSum(accuracies), Frac(1, Len(accuracies))), Frac(1, 10))

\* adjustment = (avg_accuracy - 0.5) * 0.1
Adjustment(accuracies) ==
    LET avg_accuracy == RMul(RSum(accuracies), Frac(1, Len(accuracies)))
    IN  RMul(RSub(avg_accuracy, Frac(1, 2)), Frac(1, 10))

\* mutant: the adjustment with the clamp left out
AdjustCoefficientUnclamped(coefficient, adjustment) == RAdd(coefficient, adjustment)

\* mutant: the adjustment added to the initial 1.0 instead of the current value
AdjustCoefficientFromInitial(coefficient, adjustment) ==
    RMax(CoefMin, RMin(CoefMax, RAdd(R(1), adjustment)))

\* max(0.5, min(1.5, coefficient + adjustment))
AdjustCoefficient(coefficient, adjustment) ==
    RMax(CoefMin, RMin(CoefMax, RAdd(coefficient, adjustment)))

\* mutant: the update loop writing every key of accuracy_by_type
LearnResultAnyKey(coefficients, records) ==
    IF Len(records) < MinHistory THEN coefficients
    ELSE LET accuracy_by_type == AccuracyByType(records)
         IN  [f \in DOMAIN coefficients \cup DOMAIN accuracy_by_type |->
                IF f \in DOMAIN accuracy_by_type /\ Len(accuracy_by_type[f]) > 0
                THEN AdjustCoefficient(IF f \in DOMAIN coefficients
                                       THEN coefficients[f] ELSE R(1),
                                       Adjustment(accuracy_by_type[f]))
                ELSE coefficients[f]]

\* learn_from_history as a function of the coefficients and the rows read
LearnResult(coefficients, records) ==
    IF Len(records) < MinHistory THEN coefficients
    ELSE LET accuracy_by_type == AccuracyByType(records)
         IN  [f \in DOMAIN coefficients |->
                IF f \in DOMAIN accuracy_by_type /\ Len(accuracy_by_type[f]) > 0
                THEN AdjustCoefficient(coefficients[f], Adjustment(accuracy_by_type[f]))
                ELSE coefficients[f]]

(***************************************************************************)
(* Observations: models.WeatherData and _sanitize_input.                   *)
(*                                                                         *)
(* A raw value is [num, v]: a number v, or (num = FALSE) a value pydantic  *)
(* cannot coerce to a number, such as "abc" or None.  A raw key is         *)
(* [text, decorated, is_str]: `text` is the key lower-cased and stripped,  *)
(* `decorated` says that the key as given carries upper-case letters or    *)
(* surrounding blanks, and is_str = FALSE is a key that is no string.      *)
(***************************************************************************)
\* class WeatherData(BaseModel): the declared fields and their defaults
Defaults ==
    [temperature |-> 0, humidity |-> 0, precipitation |-> 0, wind_speed |-> 0,
     pressure |-> 1013, snow_depth |-> 0, temperature_gradient |-> 0,
     consecutive_dry_days |-> 0, soil_saturation |-> 0, temperature_change |-> 0,
     snow_fall |-> 0, air_quality_index |-> 0, seismic_activity |-> 0,
     coastal_proximity |-> 9999, volcanic_activity |-> 0, pressure_change |-> 0,
     cloud_height |-> 10000, dew_point |-> 0, stagnant_water_index |-> 0,
     urban_runoff_index |-> 0, temperature_profile |-> "normal"]

NumericFields == DOMAIN Defaults \ {"temperature_profile"}

\* hasattr(weather_data, attr): pydantic ignores undeclared keyword arguments,
\* so an observation has exactly the declared fields
HasAttr(wd, attr) == attr \in DOMAIN wd

ATTRIBUTE_ALIASES ==
    ("tempature" :> "temperature") @@ ("temperatue" :> "temperature")
 @@ ("temprature" :> "temperature") @@ ("humid" :> "humidity")
 @@ ("humidty" :> "humidity") @@ ("precip" :> "precipitation")
 @@ ("rainfall" :> "precipitation") @@ ("wind" :> "wind_speed")
 @@ ("windspeed" :> "wind_speed") @@ ("pressure" :> "pressure")
 @@ ("temp" :> "temperature") @@ ("rain" :> "precipitation")
 @@ ("winds" :> "wind_speed") @@ ("soil_moisture" :> "soil_saturation")
 @@ ("dry_days" :> "consecutive_dry_days") @@ ("hot_days" :> "consecutive_hot_days")
 @@ ("air_quality" :> "air_quality_index") @@ ("aqi" :> "air_quality_index")
 @@ ("earthquake" :> "seismic_activity") @@ ("coastal_distance" :> "coastal_proximity")
 @@ ("volcano" :> "volcanic_activity")

VALID_RANGES ==
    [temperature |-> <<-70, 60>>, humidity |-> <<0, 100>>,
     precipitation |-> <<0, 2000>>, wind_speed |-> <<0, 150>>,
     pressure |-> <<870, 1085>>, air_quality_index |-> <<0, 1000>>,
     seismic_activity |-> <<0, 10>>]

\* key.lower().strip()
CleanKey(key) == key.text

\* the normalisation loop of _sanitize_input over the first n items: the
\* dictionary built so far, and whether key.lower() raised on a non-string key
RECURSIVE NormalizeKeys(_, _)
NormalizeKeys(items, n) ==
    IF n = 0 THEN [data |-> <<>>, failed |-> FALSE]
    ELSE LET before == NormalizeKeys(items, n - 1)
             key == items[n][1]
             clean_key == CleanKey(key)
             normalized_key == IF clean_key \in DOMAIN ATTRIBUTE_ALIASES
                               THEN ATTRIBUTE_ALIASES[clean_key] ELSE clean_key
         IN  IF before.failed \/ ~key.is_str
             THEN [data |-> before.data, failed |-> TRUE]
             ELSE [data |-> [k \in DOMAIN before.data \cup {normalized_key} |->
                                IF k = normalized_key THEN items[n][2]
                                ELSE before.data[k]],
                   failed |-> FALSE]

\* WeatherData(**data) raises ValidationError when a declared numeric field
\* is given a value that is no number
Constructible(data) ==
    \A k \in DOMAIN data \cap NumericFields : data[k].num

\* WeatherData(**data): declared fields from data, the others at their defaults
Construct(data) ==
    [f \in DOMAIN Defaults |->
        IF f \in DOMAIN data /\ f \in NumericFields THEN data[f].v ELSE Defaults[f]]

\* mutant: _validate_weather_data without the lower bounds
ValidateWeatherDataUpperOnly(wd) ==
    [f \in DOMAIN wd |->
        IF f \in DOMAIN VALID_RANGES /\ wd[f] > VALID_RANGES[f][2]
        THEN VALID_RANGES[f][2] ELSE wd[f]]

\* _validate_weather_data: a copy with every ranged attribute clamped
ValidateWeatherData(wd) ==
    [f \in DOMAIN wd |->
        IF f \in DOMAIN VALID_RANGES
        THEN IF wd[f] < VALID_RANGES[f][1] THEN VALID_RANGES[f][1]
             ELSE IF wd[f] > VALID_RANGES[f][2] THEN VALID_RANGES[f][2]
             ELSE wd[f]
        ELSE wd[f]]

FallbackAttrs == {"temperature", "humidity", "precipitation", "wind_speed", "pressure"}

\* the except-branch of _sanitize_input: the five basic attributes found in
\* normalized_data, passed to WeatherData without validation
FallbackData(normalized_data) ==
    LET present == {a \in FallbackAttrs :
                      (IF a \in DOMAIN ATTRIBUTE_ALIASES THEN ATTRIBUTE_ALIASES[a] ELSE a)
                          \in DOMAIN normalized_data}
    IN  [a \in present |->
            normalized_data[IF a \in DOMAIN ATTRIBUTE_ALIASES
                            THEN ATTRIBUTE_ALIASES[a] ELSE a]]

\* which path _sanitize_input takes for a raw input
SanitizePath(raw) ==
    IF raw.kind = "WeatherData" THEN "object"
    ELSE IF raw.kind # "dict" THEN "defaults"
    ELSE LET norm == NormalizeKeys(raw.items, Len(raw.items))
         IN  IF ~norm.failed /\ Constructible(norm.data) THEN "dict"
             ELSE IF Constructible(FallbackData(norm.data)) THEN "fallback"
             ELSE "defaults"

\* the object _sanitize_input hands to _validate_weather_data: the argument
\* itself, or WeatherData(**normalized_data)
ToValidate(raw) ==
    IF raw.kind = "WeatherData"
    THEN Construct([k \in {raw.items[i][1].text : i \in 1..Len(raw.items)} |->
            raw.items[CHOOSE i \in 1..Len(raw.items) : raw.items[i][1].text = k][2]])
    ELSE Construct(NormalizeKeys(raw.items, Len(raw.items)).data)

\* _sanitize_input
SanitizeInput(raw) ==
    LET norm == IF raw.kind = "dict" THEN NormalizeKeys(raw.items, Len(raw.items))
                ELSE [data |-> <<>>, failed |-> TRUE]
        path == SanitizePath(raw)
    IN  IF path \in {"object", "dict"} THEN ValidateWeatherData(ToValidate(raw))
        ELSE IF path = "fallback" THEN Construct(FallbackData(norm.data))
        ELSE Construct(<<>>)

(***************************************************************************)
(* The hazard risk functions.                                              *)
(***************************************************************************)
Ceiling == Frac(95, 100)

\* _get_attribute_safely
GetAttributeSafely(wd, attr, default_value) ==
    IF HasAttr(wd, attr) THEN wd[attr]
    ELSE IF \E alias \in DOMAIN ATTRIBUTE_ALIASES :
                ATTRIBUTE_ALIASES[alias] = attr /\ HasAttr(wd, alias)
         THEN wd[CHOOSE alias \in DOMAIN ATTRIBUTE_ALIASES :
                    ATTRIBUTE_ALIASES[alias] = attr /\ HasAttr(wd, alias)]
         ELSE default_value

\* _calculate_flood_risk: the sum of the capped contributions
FloodBaseRisk(wd) ==
    LET precipitation == GetAttributeSafely(wd, "precipitation", 0)
        soil_saturation == GetAttributeSafely(wd, "soil_saturation", 0)
        river_level_percent == GetAttributeSafely(wd, "river_level_percent", 0)
        snow_depth == GetAttributeSafely(wd, "snow_depth", 0)
        temperature == GetAttributeSafely(wd, "temperature", 0)
        upstream_precipitation == GetAttributeSafely(wd, "upstream_precipitation", 0)
        r1 == IF precipitation > 20
              THEN RMin(Frac(6, 10), RMul(R(precipitation - 20), Frac(15, 1000)))
              ELSE R(0)
        r2 == IF soil_saturation > 60
              THEN RMin(Frac(3, 10), RMul(R(soil_saturation - 60), Frac(75, 10000)))
              ELSE R(0)
        r3 == IF river_level_percent > 70
              THEN RMin(Frac(4, 10), RMul(R(river_level_percent - 70), Frac(13, 1000)))
              ELSE R(0)
        r4 == IF snow_depth > 10 /\ temperature > 5
              THEN RMin(Frac(3, 10),
                        RAdd(Frac(1, 10), RMul(R(temperature - 5), Frac(2, 100))))
              ELSE R(0)
        r5 == IF upstream_precipitation > 30
              THEN RMin(Frac(3, 10), RMul(R(upstream_precipitation - 30), Frac(1, 100)))
              ELSE R(0)
    IN  RAdd(RAdd(RAdd(RAdd(r1, r2), r3), r4), r5)

\* self.learning_coefficients.get('flood', 1.0)
FloodCoefficient(coefficients) ==
    IF "flood" \in DOMAIN coefficients THEN coefficients["flood"] ELSE R(1)

\* _calculate_flood_risk
CalculateFloodRisk(wd, coefficients) ==
    RMin(Ceiling, RMul(FloodBaseRisk(wd), FloodCoefficient(coefficients)))

\* _calculate_heat_risk: the sum of the capped contributions
HeatBaseRisk(wd) ==
    LET r1 == RMin(Frac(7, 10), RMul(R(wd.temperature - 30), Frac(7, 100)))
        r2 == IF wd.humidity > 40
              THEN RMin(Frac(3, 10), RMul(R(wd.humidity - 40), Frac(5, 1000)))
              ELSE R(0)
        r3 == IF HasAttr(wd, "consecutive_hot_days") /\ wd.consecutive_hot_days > 1
              THEN RMin(Frac(2, 10), RMul(R(wd.consecutive_hot_days - 1), Frac(4, 100)))
              ELSE R(0)
        r4 == IF HasAttr(wd, "urban_density") /\ wd.urban_density > 50
              THEN RMin(Frac(15, 100), RMul(R(wd.urban_density - 50), Frac(3, 1000)))
              ELSE R(0)
    IN  IF wd.temperature < 30 THEN R(0) ELSE RAdd(RAdd(RAdd(r1, r2), r3), r4)

\* _calculate_heat_risk
CalculateHeatRisk(wd, coefficients) == RMin(Ceiling, HeatBaseRisk(wd))

\* _calculate_storm_severity: the sum of the capped contributions
StormBaseSeverity(wd) ==
    LET r1 == IF wd.wind_speed > 30
              THEN RMin(Frac(4, 10), RMul(R(wd.wind_speed - 30), Frac(1, 100)))
              ELSE R(0)
        r2 == IF wd.pressure < 1005
              THEN RMin(Frac(3, 10), RMul(R(1005 - wd.pressure), Frac(2, 100)))
              ELSE R(0)
        r3 == IF HasAttr(wd, "pressure_change") /\ wd.pressure_change < -3
              THEN RMin(Frac(2, 10), RMul(R(Abs(wd.pressure_change + 3)), Frac(6, 100)))
              ELSE R(0)
        r4 == IF HasAttr(wd, "precipitation_intensity") /\ wd.precipitation_intensity > 10
              THEN RMin(Frac(2, 10), RMul(R(wd.precipitation_intensity - 10), Frac(2, 100)))
              ELSE R(0)
        r5 == IF HasAttr(wd, "cape_value") /\ wd.cape_value > 1000
              THEN RMin(Frac(2, 10), RMul(R(wd.cape_value - 1000), Frac(2, 10000)))
              ELSE R(0)
    IN  RAdd(RAdd(RAdd(RAdd(r1, r2), r3), r4), r5)

\* _calculate_storm_severity
CalculateStormSeverity(wd, coefficients) == RMin(Ceiling, StormBaseSeverity(wd))

\* _calculate_tornado_risk: the value before the final min(0.95, .)
TornadoBaseRisk(wd) ==
    LET r1 == IF wd.wind_shear > 20
              THEN RMin(Frac(3, 10), RMul(R(wd.wind_shear - 20), Frac(15, 1000)))
              ELSE R(0)
        r2 == IF wd.cape_value > 1500
              THEN RMin(Frac(3, 10), RMul(R(wd.cape_value - 1500), Frac(2, 10000)))
              ELSE R(0)
        r3 == IF wd.temperature_gradient > 8
              THEN RMin(Frac(2, 10), RMul(R(wd.temperature_gradient - 8), Frac(25, 1000)))
              ELSE R(0)
        r4 == IF HasAttr(wd, "helicity") /\ wd.helicity > 150
              THEN RMin(Frac(2, 10), RMul(R(wd.helicity - 150), Frac(1, 1000)))
              ELSE R(0)
        r5 == IF HasAttr(wd, "lifted_index") /\ wd.lifted_index < -4
              THEN RMin(Frac(2, 10), RMul(R(Abs(wd.lifted_index + 4)), Frac(5, 100)))
              ELSE R(0)
    IN  IF ~(\A attr \in {"wind_shear", "cape_value", "temperature_gradient"} :
                HasAttr(wd, attr))
        THEN IF /\ wd.wind_speed > 40
                /\ HasAttr(wd, "temperature_gradient")
                /\ wd.temperature_gradient > 10
             THEN RAdd(Frac(4, 10),
                       RMin(Frac(3, 10), RMul(R(wd.wind_speed - 40), Frac(1, 100))))
             ELSE R(0)
        ELSE RAdd(RAdd(RAdd(RAdd(r1, r2), r3), r4), r5)

\* _calculate_tornado_risk (the fallback branch returns without the min)
CalculateTornadoRisk(wd, coefficients) ==
    IF ~(\A attr \in {"wind_shear", "cape_value", "temperature_gradient"} :
            HasAttr(wd, attr))
    THEN TornadoBaseRisk(wd)
    ELSE RMin(Ceiling, TornadoBaseRisk(wd))

\* _calculate_wildfire_risk: the sum of the capped contributions
WildfireBaseRisk(wd) ==
    LET r1 == IF wd.temperature > 25
              THEN RMin(Frac(3, 10), RMul(R(wd.temperature - 25), Frac(2, 100)))
              ELSE R(0)
        r2 == IF wd.humidity < 40
              THEN RMin(Frac(3, 10), RMul(R(40 - wd.humidity), Frac(75, 10000)))
              ELSE R(0)
        r3 == IF wd.wind_speed > 15
              THEN RMin(Frac(2, 10), RMul(R(wd.wind_speed - 15), Frac(1, 100)))
              ELSE R(0)
        r4 == IF HasAttr(wd, "consecutive_dry_days") /\ wd.consecutive_dry_days > 7
              THEN RMin(Frac(2, 10), RMul(R(wd.consecutive_dry_days - 7), Frac(2, 100)))
              ELSE R(0)
        r5 == IF HasAttr(wd, "vegetation_dryness") /\ wd.vegetation_dryness > 60
              THEN RMin(Frac(2, 10), RMul(R(wd.vegetation_dryness - 60), Frac(5, 1000)))
              ELSE R(0)
        r6 == IF /\ HasAttr(wd, "dry_lightning_probability")
                 /\ RLt(Frac(3, 10), wd.dry_lightning_probability)
              THEN RMin(Frac(2, 10), wd.dry_lightning_probability)
              ELSE R(0)
    IN  IF wd.humidity > 60 \/ wd.precipitation > 5 THEN R(0)
        ELSE RAdd(RAdd(RAdd(RAdd(RAdd(r1, r2), r3), r4), r5), r6)

\* mutant: _calculate_wildfire_risk without the wet-conditions return
CalculateWildfireRiskIgnoringWet(wd, coefficients) ==
    RMin(Ceiling, WildfireBaseRisk([wd EXCEPT !.humidity = 0, !.precipitation = 0]))

\* _calculate_wildfire_risk
CalculateWildfireRisk(wd, coefficients) == RMin(Ceiling, WildfireBaseRisk(wd))

(***************************************************************************)
(* predict_disasters.  Each block of the method is one operator giving the *)
(* findings the block appends; reading an attribute the observation does   *)
(* not have raises AttributeError and ends the call.                       *)
(***************************************************************************)
Finding(disaster_type, probability, severity) ==
    [disaster_type |-> disaster_type, probability |-> probability, severity |-> severity]

FloodFindings(flood_risk) ==
    IF RLt(Frac(8, 10), flood_risk)
    THEN <<Finding("Severe Flood", flood_risk, "Severe")>>
    ELSE IF RLt(Frac(6, 10), flood_risk)
    THEN <<Finding("Moderate Flood", flood_risk, "Moderate")>>
    ELSE IF RLt(Frac(4, 10), flood_risk)
    THEN <<Finding("Minor Flood", flood_risk, "Low")>>
    ELSE <<>>

\* `precipitation > 30 and precipitation_intensity > 15`: the right operand is
\* read only when the left one holds
FlashFloodRaises(wd) ==
    wd.precipitation > 30 /\ ~HasAttr(wd, "precipitation_intensity")

FlashFloodFindings(wd) ==
    IF wd.precipitation > 30 /\ wd.precipitation_intensity > 15
    THEN <<Finding("Flash Flood",
                   RMin(Ceiling, RAdd(Frac(6, 10),
                                      RMul(R(wd.precipitation - 30), Frac(2, 100)))),
                   "Severe")>>
    ELSE <<>>

UrbanFloodFindings(wd) ==
    LET urban_flood_risk ==
            RAdd(Frac(3, 10),
                 RMul(RMin(R(1), Frac(wd.urban_runoff_index, 100)), Frac(6, 10)))
    IN  IF wd.precipitation > 20 /\ RLt(Frac(65, 100), urban_flood_risk)
        THEN <<Finding("Urban Flooding", urban_flood_risk, "High")>>
        ELSE <<>>

\* mutant: the heat bands taken inclusively
HeatFindingsInclusive(heat_risk) ==
    IF RLe(Frac(85, 100), heat_risk)
    THEN <<Finding("Extreme Heat Wave", heat_risk, "Extreme")>>
    ELSE IF RLe(Frac(7, 10), heat_risk)
    THEN <<Finding("Severe Heat Wave", heat_risk, "Severe")>>
    ELSE IF RLe(Frac(5, 10), heat_risk)
    THEN <<Finding("Heat Wave", heat_risk, "Moderate")>>
    ELSE <<>>

HeatFindings(heat_risk) ==
    IF RLt(Frac(85, 100), heat_risk)
    THEN <<Finding("Extreme Heat Wave", heat_risk, "Extreme")>>
    ELSE IF RLt(Frac(7, 10), heat_risk)
    THEN <<Finding("Severe Heat Wave", heat_risk, "Severe")>>
    ELSE IF RLt(Frac(5, 10), heat_risk)
    THEN <<Finding("Heat Wave", heat_risk, "Moderate")>>
    ELSE <<>>

StormFindings(storm_severity) ==
    IF RLt(Frac(8, 10), storm_severity)
    THEN <<Finding("Severe Storm System", Frac(85, 100), "Severe")>>
    ELSE IF RLt(Frac(6, 10), storm_severity)
    THEN <<Finding("Moderate Storm", Frac(75, 100), "Moderate")>>
    ELSE <<>>

HurricaneRaises(wd) ==
    wd.wind_speed > 75 /\ wd.pressure < 980 /\ ~HasAttr(wd, "sea_surface_temp")

\* int(x / 10): Python truncates toward zero
TruncDiv10(x) == IF x >= 0 THEN x \div 10 ELSE -((-x) \div 10)

\* cat_level = min(5, 1 + int((119 - pressure) / 10))
HurricaneCategory(pressure) ==
    LET c == 1 + TruncDiv10(119 - pressure)
    IN  IF c > 5 THEN 5 ELSE c

HurricaneFindings(wd) ==
    LET cat_level == HurricaneCategory(wd.pressure)
    IN  IF wd.wind_speed > 75 /\ wd.pressure < 980 /\ wd.sea_surface_temp > 26
        THEN <<[disaster_type |-> "Category N Hurricane/Cyclone", cat_level |-> cat_level,
                probability |-> Frac(9, 10), severity |-> "Extreme"]>>
        ELSE <<>>

\* mutant: the tornado bands taken inclusively
TornadoFindingsInclusive(tornado_risk) ==
    IF RLe(Frac(7, 10), tornado_risk)
    THEN <<Finding("Tornado Warning", tornado_risk, "Severe")>>
    ELSE IF RLe(Frac(5, 10), tornado_risk)
    THEN <<Finding("Tornado Watch", tornado_risk, "High")>>
    ELSE <<>>

TornadoFindings(tornado_risk) ==
    IF RLt(Frac(7, 10), tornado_risk)
    THEN <<Finding("Tornado Warning", tornado_risk, "Severe")>>
    ELSE IF RLt(Frac(5, 10), tornado_risk)
    THEN <<Finding("Tornado Watch", tornado_risk, "High")>>
    ELSE <<>>

WinterSeverity(wd) ==
    RAdd(RAdd(RAdd(Frac(5, 10),
                   IF wd.temperature < -5 THEN Frac(2, 10) ELSE R(0)),
              IF wd.wind_speed > 30 THEN Frac(2, 10) ELSE R(0)),
         IF wd.precipitation > 20 THEN Frac(1, 10) ELSE R(0))

WinterFindings(wd) ==
    LET winter_severity == WinterSeverity(wd)
        storm_type == IF RLt(Frac(8, 10), winter_severity) /\ wd.wind_speed > 35
                      THEN "Blizzard" ELSE "Winter Storm"
    IN  IF wd.temperature < 2 /\ wd.precipitation > 10
        THEN <<Finding(storm_type, winter_severity,
                       IF RLt(Frac(8, 10), winter_severity) THEN "Severe" ELSE "Moderate")>>
        ELSE <<>>

\* mutant: the tsunami test without the coastal proximity
TsunamiFindingsAnywhere(wd) ==
    IF 2 * wd.seismic_activity > 13
    THEN <<Finding("Tsunami",
                   RAdd(Frac(4, 10),
                        RMin(Frac(5, 10),
                             RMul(RSub(R(wd.seismic_activity), Frac(65, 10)),
                                  Frac(2, 10)))),
                   IF 2 * wd.seismic_activity < 15 THEN "Moderate" ELSE "Severe")>>
    ELSE <<>>

TsunamiFindings(wd) ==
    LET base == RAdd(Frac(4, 10),
                     RMin(Frac(5, 10),
                          RMul(RSub(R(wd.seismic_activity), Frac(65, 10)), Frac(2, 10))))
        tsunami_probability ==
            IF HasAttr(wd, "underwater_quake") /\ wd.underwater_quake
            THEN RAdd(base, Frac(3, 10)) ELSE base
    IN  IF /\ 2 * wd.seismic_activity > 13
           /\ HasAttr(wd, "coastal_proximity")
           /\ wd.coastal_proximity < 100
        THEN <<Finding("Tsunami", tsunami_probability,
                       IF 2 * wd.seismic_activity < 15 THEN "Moderate" ELSE "Severe")>>
        ELSE <<>>

\* f"{quake_severity} Earthquake"
EarthquakeLabel ==
    [Minor |-> "Minor Earthquake", Moderate |-> "Moderate Earthquake",
     Major |-> "Major Earthquake", Extreme |-> "Extreme Earthquake"]

EarthquakeFindings(wd) ==
    LET quake_severity == IF wd.seismic_activity < 6 THEN "Minor"
                          ELSE IF wd.seismic_activity < 7 THEN "Moderate"
                          ELSE IF wd.seismic_activity < 8 THEN "Major"
                          ELSE "Extreme"
        earthquake_prob == RMin(Ceiling, RAdd(Frac(5, 10),
                                RMul(R(wd.seismic_activity - 5), Frac(1, 10))))
    IN  IF HasAttr(wd, "seismic_activity") /\ wd.seismic_activity > 5
        THEN <<Finding(EarthquakeLabel[quake_severity], earthquake_prob, quake_severity)>>
             \o TsunamiFindings(wd)
        ELSE <<>>

FireFindings(wildfire_risk) ==
    IF RLt(Frac(8, 10), wildfire_risk)
    THEN <<Finding("Extreme Fire Danger", wildfire_risk, "Extreme")>>
    ELSE IF RLt(Frac(6, 10), wildfire_risk)
    THEN <<Finding("High Fire Danger", wildfire_risk, "High")>>
    ELSE IF RLt(Frac(4, 10), wildfire_risk)
    THEN <<Finding("Moderate Fire Danger", wildfire_risk, "Moderate")>>
    ELSE <<>>

AirQualityFindings(wd) ==
    IF HasAttr(wd, "air_quality_index") /\ wd.air_quality_index > 0
    THEN IF wd.air_quality_index > 300
         THEN <<Finding("Hazardous Air Quality Emergency", Frac(95, 100), "Extreme")>>
         ELSE IF wd.air_quality_index > 200
         THEN <<Finding("Very Unhealthy Air Quality", Frac(9, 10), "Severe")>>
         ELSE IF wd.air_quality_index > 150
         THEN <<Finding("Unhealthy Air Quality", Frac(8, 10), "High")>>
         ELSE <<>>
    ELSE <<>>

Sentinel == Finding("No Significant Hazards", Frac(8, 10), "Low")

\* mutant: the default case left out
WithDefaultMissing(found) == found

\* `if not predictions: predictions.append(<sentinel>)`
WithDefault(found) == IF found = <<>> THEN <<Sentinel>> ELSE found

\* a risk local that the call did not reach
NotComputed == <<>>

\* mutant: the environmental blocks run before the others
InCodeOrderEnvironmentalFirst(hydrological, meteorological, geological, environmental) ==
    environmental \o hydrological \o meteorological \o geological

\* the order in which the four sections of predict_disasters append to
\* `predictions`
InCodeOrder(hydrological, meteorological, geological, environmental) ==
    hydrological \o meteorological \o geological \o environmental

\* predict_disasters on a raw input under the given coefficients: the
\* sanitized observation, the risk locals, and either the list returned or
\* the fact that the call raised
PredictDisasters(raw, coefficients) ==
    LET wd == SanitizeInput(raw)
        flood_risk == CalculateFloodRisk(wd, coefficients)
        heat_risk == CalculateHeatRisk(wd, coefficients)
        storm_severity == CalculateStormSeverity(wd, coefficients)
        tornado_risk == CalculateTornadoRisk(wd, coefficients)
        wildfire_risk == CalculateWildfireRisk(wd, coefficients)
    IN  IF FlashFloodRaises(wd)
        THEN [weather_data |-> wd, outcome |-> "raised", predictions |-> <<>>,
              risks |-> [flood |-> flood_risk, heat_wave |-> NotComputed,
                         storm |-> NotComputed, tornado |-> NotComputed,
                         wildfire |-> NotComputed]]
        ELSE IF HurricaneRaises(wd)
        THEN [weather_data |-> wd, outcome |-> "raised", predictions |-> <<>>,
              risks |-> [flood |-> flood_risk, heat_wave |-> heat_risk,
                         storm |-> storm_severity, tornado |-> NotComputed,
                         wildfire |-> NotComputed]]
        ELSE [weather_data |-> wd, outcome |-> "returned",
              predictions |->
                 WithDefault(InCodeOrder(
                    FloodFindings(flood_risk) \o FlashFloodFindings(wd)
                        \o UrbanFloodFindings(wd),
                    HeatFindings(heat_risk) \o StormFindings(storm_severity)
                        \o HurricaneFindings(wd) \o TornadoFindings(tornado_risk)
                        \o WinterFindings(wd),
                    EarthquakeFindings(wd),
                    FireFindings(wildfire_risk) \o AirQualityFindings(wd))),
              risks |-> [flood |-> flood_risk, heat_wave |-> heat_risk,
                         storm |-> storm_severity, tornado |-> tornado_risk,
                         wildfire |-> wildfire_risk]]

(***************************************************************************)
(* correct_location_name.  A location is a tuple of characters; the fuzzy  *)
(* step is difflib.get_close_matches(word, possibilities, n=1, cutoff=0.7),*)
(* computed as the library computes it: SequenceMatcher's matching blocks  *)
(* (longest common block first, then the pieces left and right of it) and  *)
(* ratio 2 * M / T, behind the two cheaper upper bounds.                   *)
(***************************************************************************)
LOCATION_ALIASES ==
    << [name |-> <<"c","h","e","r","r","a","p","u","n","j","i">>,
        aliases |-> <<<<"c","h","i","r","a","p","u","n","j","i">>,
                      <<"c","h","e","e","r","a","p","u","n","j","i">>,
                      <<"c","h","i","r","r","a","p","u","n","j","i">>,
                      <<"c","h","e","r","a","p","u","n","j","i">>>>],
       [name |-> <<"m","u","m","b","a","i">>,
        aliases |-> <<<<"b","o","m","b","a","y">>,
                      <<"m","u","m","b","i","a">>,
                      <<"m","u","m","b","y","e">>>>],
       [name |-> <<"d","e","l","h","i">>,
        aliases |-> <<<<"n","e","w"," ","d","e","l","h","i">>,
                      <<"d","i","l","l","i">>,
                      <<"d","e","h","l","i">>>>],
       [name |-> <<"b","a","n","g","a","l","o","r","e">>,
        aliases |-> <<<<"b","e","n","g","a","l","u","r","u">>,
                      <<"b","a","n","g","l","o","r","e">>,
                      <<"b","a","n","g","a","l","o","r">>>>],
       [name |-> <<"c","h","e","n","n","a","i">>,
        aliases |-> <<<<"m","a","d","r","a","s">>,
                      <<"c","h","e","n","a","i">>,
                      <<"c","h","i","n","n","a","i">>>>],
       [name |-> <<"k","o","l","k","a","t","a">>,
        aliases |-> <<<<"c","a","l","c","u","t","t","a">>,
                      <<"k","o","l","k","a","t","t","a">>,
                      <<"k","o","l","k","o","t","a">>>>],
       [name |-> <<"n","e","w"," ","y","o","r","k">>,
        aliases |-> <<<<"n","e","w","y","o","r","k">>,
                      <<"n","y">>,
                      <<"n","e","w"," ","y","o","r","k"," ","c","i","t","y">>,
                      <<"n","y","c">>>>],
       [name |-> <<"l","o","s"," ","a","n","g","e","l","e","s">>,
        aliases |-> <<<<"l","a">>,
                      <<"l",".","a",".">>,
                      <<"l","o","s","a","n","g","e","l","e","s">>>>],
       [name |-> <<"s","a","n"," ","f","r","a","n","c","i","s","c","o">>,
        aliases |-> <<<<"s","f">>,
                      <<"s","a","n","f","r","a","n">>,
                      <<"s","a","n","f","r","a","n","c","i","s","c","o">>>>],
       [name |-> <<"n","e","w"," ","o","r","l","e","a","n","s">>,
        aliases |-> <<<<"n","e","w","o","r","l","e","a","n","s">>,
                      <<"n","a","w","l","i","n","s">>>>],
       [name |-> <<"l","o","n","d","o","n">>,
        aliases |-> <<<<"l","o","n","d","r","a">>,
                      <<"l","o","n","d","e","n">>>>],
       [name |-> <<"p","a","r","i","s">>,
        aliases |-> <<<<"p","a","r","i">>,
                      <<"p","a","r","e","e">>>>],
       [name |-> <<"t","o","k","y","o">>,
        aliases |-> <<<<"t","o","k","i","o">>,
                      <<"t","o","y","k","o">>>>],
       [name |-> <<"b","e","i","j","i","n","g">>,
        aliases |-> <<<<"p","e","k","i","n","g">>,
                      <<"b","e","i","j","i","n","g">>>>],
       [name |-> <<"s","y","d","n","e","y">>,
        aliases |-> <<<<"s","i","d","n","e","y">>>>] >>

\* characters in code-point order, for Python's string comparison
CharOrder ==
    <<" ", ".", "0", "1", "2", "3", "4", "5", "6", "7", "8", "9",
      "A", "B", "C", "D", "E", "F", "G", "H", "I", "J", "K", "L", "M",
      "N", "O", "P", "Q", "R", "S", "T", "U", "V", "W", "X", "Y", "Z",
      "a", "b", "c", "d", "e", "f", "g", "h", "i", "j", "k", "l", "m",
      "n", "o", "p", "q", "r", "s", "t", "u", "v", "w", "x", "y", "z">>

Ord(c) == CHOOSE k \in 1..Len(CharOrder) : CharOrder[k] = c

\* s < t on Python strings
StrLess(s, t) ==
    \E k \in 1..(Len(s) + 1) :
        /\ k <= Len(t)
        /\ \A i \in 1..(k - 1) : s[i] = t[i]
        /\ k <= Len(s) => Ord(s[k]) < Ord(t[k])

RECURSIVE StripLeft(_)
StripLeft(s) == IF s # <<>> /\ Head(s) = " " THEN StripLeft(Tail(s)) ELSE s

RECURSIVE StripRight(_)
StripRight(s) ==
    IF s # <<>> /\ s[Len(s)] = " " THEN StripRight(SubSeq(s, 1, Len(s) - 1)) ELSE s

\* str.strip()
Strip(s) == StripRight(StripLeft(s))

\* the length of the common run of a from i and b from j
RECURSIVE RunLen(_, _, _, _)
RunLen(a, b, i, j) ==
    IF i > Len(a) \/ j > Len(b) \/ a[i] # b[j] THEN 0
    ELSE 1 + RunLen(a, b, i + 1, j + 1)

\* SequenceMatcher.find_longest_match: <<i, j, k>>, the longest common block,
\* the one starting earliest in a and then earliest in b; k = 0 when none
FindLongestMatch(a, b) ==
    LET run == [p \in (1..Len(a)) \X (1..Len(b)) |-> RunLen(a, b, p[1], p[2])]
        best == CHOOSE p \in DOMAIN run :
                    \A q \in DOMAIN run :
                        \/ run[q] < run[p]
                        \/ run[q] = run[p] /\ (p[1] < q[1] \/ (p[1] = q[1] /\ p[2] <= q[2]))
    IN  IF a = <<>> \/ b = <<>> THEN <<1, 1, 0>>
        ELSE <<best[1], best[2], run[best]>>

\* the total size of SequenceMatcher.get_matching_blocks
RECURSIVE Matches(_, _)
Matches(a, b) ==
    LET m == FindLongestMatch(a, b)
    IN  IF m[3] = 0 THEN 0
        ELSE m[3] + Matches(SubSeq(a, 1, m[1] - 1), SubSeq(b, 1, m[2] - 1))
                  + Matches(SubSeq(a, m[1] + m[3], Len(a)), SubSeq(b, m[2] + m[3], Len(b)))

\* difflib._calculate_ratio
CalculateRatio(matches, length) ==
    IF length = 0 THEN R(1) ELSE Frac(2 * matches, length)

\* SequenceMatcher.ratio
Ratio(a, b) == CalculateRatio(Matches(a, b), Len(a) + Len(b))

Count(s, c) == Cardinality({i \in 1..Len(s) : s[i] = c})

\* SequenceMatcher.quick_ratio: the characters in common, as multisets
QuickRatio(a, b) ==
    LET common == UNION {{c} \X (1..(IF Count(a, c) < Count(b, c)
                                      THEN Count(a, c) ELSE Count(b, c))) :
                            c \in {a[i] : i \in 1..Len(a)}}
    IN  CalculateRatio(Cardinality(common), Len(a) + Len(b))

\* SequenceMatcher.real_quick_ratio
RealQuickRatio(a, b) ==
    CalculateRatio(IF Len(a) < Len(b) THEN Len(a) ELSE Len(b), Len(a) + Len(b))

\* mutant: no cutoff
CutoffZero == R(0)

\* cutoff=0.7
Cutoff == Frac(7, 10)

\* difflib.get_close_matches(word, possibilities, n=1, cutoff): the best
\* scoring possibility at or above the cutoff (of equal scores, the greater
\* string), as a list of at most one element
GetCloseMatches(word, possibilities, cutoff) ==
    LET close == {x \in {possibilities[k] : k \in 1..Len(possibilities)} :
                     /\ RLe(cutoff, RealQuickRatio(x, word))
                     /\ RLe(cutoff, QuickRatio(x, word))
                     /\ RLe(cutoff, Ratio(x, word))}
        score == [x \in close |-> Ratio(x, word)]
    IN  IF close = {} THEN <<>>
        ELSE <<CHOOSE x \in close :
                  \A y \in close :
                      \/ y = x
                      \/ RLt(score[y], score[x])
                      \/ score[y] = score[x] /\ StrLess(y, x)>>

InAliases(location, aliases) == \E k \in 1..Len(aliases) : aliases[k] = location

RECURSIVE Flatten(_)
Flatten(lists) == IF lists = <<>> THEN <<>> ELSE Head(lists) \o Flatten(Tail(lists))

\* all_locations: the canonical names, then every alias list in turn
AllLocations ==
    [k \in 1..Len(LOCATION_ALIASES) |-> LOCATION_ALIASES[k].name]
        \o Flatten([k \in 1..Len(LOCATION_ALIASES) |-> LOCATION_ALIASES[k].aliases])

\* the entries of LOCATION_ALIASES that a location names, as canonical name
\* or as alias
EntriesOf(location) ==
    {k \in 1..Len(LOCATION_ALIASES) :
        \/ location = LOCATION_ALIASES[k].name
        \/ InAliases(location, LOCATION_ALIASES[k].aliases)}

\* mutant: the matched string returned as it is
CanonicalOfItself(matched_alias, original) == matched_alias

\* the loop over LOCATION_ALIASES.items() that returns the canonical name of
\* the first entry naming the location; the original input when no entry does
CanonicalOf(location, original) ==
    IF EntriesOf(location) = {} THEN original
    ELSE LOCATION_ALIASES[CHOOSE k \in EntriesOf(location) :
                              \A l \in EntriesOf(location) : k <= l].name

\* correct_location_name
CorrectLocationName(location) ==
    LET location_lower == Strip(Lower(location))
        matches == GetCloseMatches(location_lower, AllLocations, Cutoff)
    IN  IF location = <<>> THEN location
        ELSE IF EntriesOf(location_lower) # {}
        THEN CanonicalOf(location_lower, location)
        ELSE IF matches # <<>> THEN CanonicalOf(matches[1], location)
        ELSE location

(***************************************************************************)
(* The /api/predict endpoint.  The handler is a coroutine on the one event *)
(* loop of the server process: the loop runs it from its start to its      *)
(* `await`, and from there to its end, and runs no other coroutine in      *)
(* between.  learn_from_history is split into its steps: the read, the     *)
(* collection loop, and one round of the update loop per category.         *)
(***************************************************************************)
Requests == 1..MaxRequests

\* the locals of a handler: those of its learn_from_history call (the
\* coefficients on entry, the rows read, the categories still to update),
\* and, recorded for the properties, the position of the call among all
\* learn_from_history calls, the coefficients the call left, and the
\* coefficients the handler's predict_disasters call scored with
NoLocals ==
    [entry |-> <<>>, recent_predictions |-> <<>>, todo |-> <<>>,
     ordinal |-> 0, left |-> <<>>, scored_with |-> <<>>]

\* mutant: every handler in a thread of its own
EventLoopIdleAlways == TRUE

\* the event loop switches to another coroutine only when none is running
EventLoopIdle == running = 0

\* `"," in location and all(c.isdigit() or c in ".-," for c in location)`
IsCoordinates(location) ==
    /\ \E i \in 1..Len(location) : location[i] = ","
    /\ \A i \in 1..Len(location) :
          location[i] \in {"0", "1", "2", "3", "4", "5", "6", "7", "8", "9", ".", "-", ","}

\* prediction['disaster_type'] raises KeyError on a stored finding without
\* that key; the index of the first record the collection loop raises at,
\* 0 when it raises at none (records without accuracy are skipped unread)
RaisesAt(records) ==
    LET bad == {i \in 1..Len(records) :
                   /\ records[i].accuracy # NoAccuracy
                   /\ \E j \in 1..Len(records[i].predictions) :
                         "disaster_type" \notin DOMAIN records[i].predictions[j]}
    IN  IF bad = {} THEN 0 ELSE CHOOSE i \in bad : \A k \in bad : i <= k

\* the categories of the findings of the first n records, in reading order
RECURSIVE CategoriesInOrder(_, _)
CategoriesInOrder(records, n) ==
    IF n = 0 THEN <<>>
    ELSE CategoriesInOrder(records, n - 1)
            \o (IF records[n].accuracy = NoAccuracy THEN <<>>
                ELSE [j \in 1..Len(records[n].predictions) |->
                        MapToCategory(Lower(Chars[records[n].predictions[j].disaster_type]))])

\* the keys of a dict in insertion order
RECURSIVE FirstOccurrences(_)
FirstOccurrences(keys) ==
    IF keys = <<>> THEN <<>>
    ELSE LET front == FirstOccurrences(SubSeq(keys, 1, Len(keys) - 1))
             last == keys[Len(keys)]
         IN  IF \E i \in 1..Len(front) : front[i] = last THEN front
             ELSE Append(front, last)

\* mutant: a collection loop that adjusts the coefficients record by record
CollectionLoopAdjustingAsItGoes(coefficients, records) ==
    LET at == RaisesAt(records)
        seen == AccuracyByType(SubSeq(records, 1, at - 1))
    IN  [raised |-> at # 0,
         categories |-> IF at # 0 THEN <<>>
                        ELSE FirstOccurrences(CategoriesInOrder(records, Len(records))),
         coefficients |->
            IF at = 0 THEN coefficients
            ELSE [f \in DOMAIN coefficients |->
                    IF f \in DOMAIN seen
                    THEN AdjustCoefficient(coefficients[f], Adjustment(seen[f]))
                    ELSE coefficients[f]]]

\* the collection loop of learn_from_history: whether it raised, the keys of
\* accuracy_by_type in insertion order, and the coefficients it leaves
CollectionLoop(coefficients, records) ==
    [raised |-> RaisesAt(records) # 0,
     categories |-> IF RaisesAt(records) # 0 THEN <<>>
                    ELSE FirstOccurrences(CategoriesInOrder(records, Len(records))),
     coefficients |-> coefficients]

(***************************************************************************)
(* Inputs of the model.                                                    *)
(***************************************************************************)
Num(v) == [num |-> TRUE, v |-> v]

NotANumber == [num |-> FALSE, v |-> 0]

Key(text) == [text |-> text, decorated |-> FALSE, is_str |-> TRUE]

Decorated(text) == [text |-> text, decorated |-> TRUE, is_str |-> TRUE]

NonStringKey == [text |-> "", decorated |-> FALSE, is_str |-> FALSE]

\* the key/value pairs a caller's dictionary is drawn from, in the order in
\* which they are inserted
InputMenu ==
    << <<Decorated("temp"), Num(40)>>,
       <<Key("temperature"), Num(-10)>>,
       <<Key("temperature"), Num(40)>>,
       <<Key("temperature"), Num(500)>>,
       <<Key("tempature"), Num(-80)>>,
       <<Key("humidity"), Num(70)>>,
       <<Key("humidity"), Num(90)>>,
       <<Key("humidity"), NotANumber>>,
       <<Key("precipitation"), Num(25)>>,
       <<Key("precipitation"), Num(35)>>,
       <<Key("wind_speed"), Num(50)>>,
       <<Key("wind_speed"), Num(80)>>,
       <<Key("pressure"), Num(975)>>,
       <<Key("snow_depth"), Num(20)>>,
       <<Key("snow_depth"), NotANumber>>,
       <<Key("temperature_gradient"), Num(15)>>,
       <<Key("consecutive_dry_days"), Num(20)>>,
       <<Key("soil_saturation"), Num(100)>>,
       <<Key("air_quality_index"), Num(350)>>,
       <<Key("seismic_activity"), Num(5)>>,
       <<Key("seismic_activity"), Num(6)>>,
       <<Key("seismic_activity"), Num(8)>>,
       <<Key("seismic_activity"), Num(12)>>,
       <<Key("coastal_proximity"), Num(50)>>,
       <<Key("coastal_proximity"), Num(100)>>,
       <<Key("pressure_change"), Num(-10)>>,
       <<Key("urban_runoff_index"), Num(80)>>,
       <<Key("precipitation_intensity"), Num(18)>>,
       <<Key("sea_surface_temp"), Num(27)>>,
       <<NonStringKey, Num(1)>> >>

MenuIndex(item) == CHOOSE i \in 1..Len(InputMenu) : InputMenu[i] = item

\* the coefficient values the scoring is checked under; each is a value the
\* learning step can leave (1.04 and 0.96 after one step, the two clamps)
CoefChoices == {Frac(1, 2), Frac(24, 25), R(1), Frac(26, 25), Frac(3, 2)}

\* rows of the predictions table
RecordKinds ==
    { [accuracy |-> NoAccuracy,
       predictions |-> <<[disaster_type |-> "Severe Flood"]>>],
      [accuracy |-> Frac(9, 10),
       predictions |-> <<[disaster_type |-> "Severe Flood"],
                         [disaster_type |-> "Flash Flood"]>>],
      [accuracy |-> Frac(1, 10),
       predictions |-> <<[disaster_type |-> "Moderate Flood"],
                         [disaster_type |-> "Heat Wave"],
                         [disaster_type |-> "Tsunami"]>>] }

\* a row whose second finding was stored without its disaster_type
BrokenRecord ==
    [accuracy |-> Frac(9, 10),
     predictions |-> <<[disaster_type |-> "Severe Flood"], [severity |-> "Low"]>>]

GoodRecord ==
    [accuracy |-> Frac(1, 10),
     predictions |-> <<[disaster_type |-> "Moderate Flood"],
                       [disaster_type |-> "Heat Wave"],
                       [disaster_type |-> "Tsunami"]>>]

\* the predictions table the server starts over
StoredTables ==
    { <<>>,
      [i \in 1..5 |-> GoodRecord],
      <<BrokenRecord>> \o [i \in 1..5 |-> GoodRecord],
      [i \in 1..5 |-> GoodRecord] \o <<BrokenRecord>>,
      [i \in 1..5 |-> GoodRecord] \o <<[BrokenRecord EXCEPT !.accuracy = NoAccuracy]>> }

\* the locations requested
ServeLocations ==
    { <<"b","o","m","b","a","y">>, <<"1","2",".","5",",","7","7",".","6">> }

\* the observations the weather service answers with
ServeObservations ==
    { <<>>,
      << <<Key("precipitation"), Num(35)>> >>,
      << <<Key("precipitation"), Num(30)>>, <<Key("soil_saturation"), Num(100)>> >>,
      << <<Key("seismic_activity"), Num(8)>> >> }

SeqsUpTo(S, n) == UNION {[1..k -> S] : k \in 0..n}

NoObservation == <<>>

UpperChar(c) ==
    IF \E u \in DOMAIN UpperToLower : UpperToLower[u] = c
    THEN CHOOSE u \in DOMAIN UpperToLower : UpperToLower[u] = c
    ELSE c

Capitalised(w) == IF w = <<>> THEN w ELSE <<UpperChar(Head(w))>> \o Tail(w)

Padded(w) == <<" ">> \o w \o <<" ">>

DropChar(w, i) == SubSeq(w, 1, i - 1) \o SubSeq(w, i + 1, Len(w))

KnownLocations == {AllLocations[k] : k \in 1..Len(AllLocations)}

\* strings no entry of the table is close to
UnknownLocations ==
    {<<"z","z","z","q","q","q","1","2","3">>, <<"Z","z","z">>, <<" ","x","q"," ">>,
     <<"1","2",".","5",",","7","7",".","6">>, <<>>}

\* the strings correct_location_name is called with: every name and alias
\* of the table as it is, capitalised, padded with blanks, with one
\* character left out, and capitalised without its last character, and
\* strings that resemble none
LocationInputs ==
    KnownLocations
        \cup {Capitalised(w) : w \in KnownLocations}
        \cup {Padded(Capitalised(w)) : w \in KnownLocations}
        \cup UNION {{DropChar(w, i) : i \in 1..Len(w)} : w \in KnownLocations}
        \cup {Capitalised(DropChar(w, Len(w))) : w \in KnownLocations}
        \cup UnknownLocations

NoRisks == <<>>

(***************************************************************************)
(* Actions.                                                                *)
(***************************************************************************)
LearnVars == <<learning_coefficients, history, learn_calls, coef_before>>

PredictVars == <<raw_weather_data, weather_data, risks, outcome, predictions>>

ResolveVars == <<location_input, corrected_location>>

ServeVars == <<pc, running, local>>

\* a row is inserted into the predictions table (newest first on reading)
StoreRecord(r) ==
    /\ Len(history) < MaxHistory
    /\ history' = <<r>> \o history
    /\ last_op' = "store"
    /\ UNCHANGED prediction_feedback
    /\ UNCHANGED <<learning_coefficients, learn_calls, coef_before, PredictVars>>
    /\ UNCHANGED <<ResolveVars, ServeVars>>

\* mutant: learn_from_history recomputing from the initial coefficients
LearnFromScratch ==
    /\ coef_before' = learning_coefficients
    /\ learning_coefficients' =
          LearnResult(InitCoefficients, GetRecentPredictions(HistoryLimit))
    /\ learn_calls' = learn_calls + 1
    /\ last_op' = "learn"
    /\ UNCHANGED prediction_feedback
    /\ UNCHANGED <<history, PredictVars>>
    /\ UNCHANGED <<ResolveVars, ServeVars>>

\* learn_from_history()
LearnFromHistory ==
    /\ coef_before' = learning_coefficients
    /\ learning_coefficients' =
          LearnResult(learning_coefficients, GetRecentPredictions(HistoryLimit))
    /\ learn_calls' = learn_calls + 1
    /\ last_op' = "learn"
    /\ UNCHANGED prediction_feedback
    /\ UNCHANGED <<history, PredictVars>>
    /\ UNCHANGED <<ResolveVars, ServeVars>>

\* a caller starts building the argument of a predict_disasters call
NewRequest(kind) ==
    /\ raw_weather_data' = [kind |-> kind, items |-> <<>>]
    /\ weather_data' = NoObservation
    /\ risks' = NoRisks
    /\ predictions' = <<>>
    /\ outcome' = "none"
    /\ last_op' = "request"
    /\ UNCHANGED prediction_feedback
    /\ UNCHANGED LearnVars
    /\ UNCHANGED <<ResolveVars, ServeVars>>

\* the caller puts one more key into the argument
AddItem(i) ==
    LET item == InputMenu[i]
        items == raw_weather_data.items
    IN  /\ outcome = "none"
        /\ raw_weather_data.kind \in {"dict", "WeatherData"}
        /\ Len(items) < MaxKeys
        /\ items # <<>> => i > MenuIndex(items[Len(items)])
        /\ \A j \in 1..Len(items) : items[j][1] # item[1]
        /\ raw_weather_data.kind = "WeatherData" =>
              /\ item[1].is_str /\ ~item[1].decorated
              /\ item[1].text \in NumericFields
              /\ item[2].num
        /\ raw_weather_data' = [raw_weather_data EXCEPT !.items = Append(items, item)]
        /\ last_op' = "request"
        /\ UNCHANGED prediction_feedback
        /\ UNCHANGED <<weather_data, risks, predictions, outcome, LearnVars>>
        /\ UNCHANGED <<ResolveVars, ServeVars>>

\* mutant: predict_disasters appending to the list of the previous call
PredictKeepingList ==
    \E res \in {PredictDisasters(raw_weather_data, learning_coefficients)} :
        /\ weather_data' = res.weather_data
        /\ risks' = res.risks
        /\ predictions' = predictions \o res.predictions
        /\ outcome' = res.outcome
        /\ last_op' = "predict"
        /\ UNCHANGED prediction_feedback
        /\ UNCHANGED <<raw_weather_data, LearnVars>>
        /\ UNCHANGED <<ResolveVars, ServeVars>>

\* predict_disasters(raw_weather_data)
Predict ==
    \E res \in {PredictDisasters(raw_weather_data, learning_coefficients)} :
        /\ weather_data' = res.weather_data
        /\ risks' = res.risks
        /\ predictions' = res.predictions
        /\ outcome' = res.outcome
        /\ last_op' = "predict"
        /\ UNCHANGED prediction_feedback
        /\ UNCHANGED <<raw_weather_data, LearnVars>>
        /\ UNCHANGED <<ResolveVars, ServeVars>>

\* correct_location_name(location_input)
CorrectLocation ==
    /\ last_op = "init"
    /\ corrected_location' = CorrectLocationName(location_input)
    /\ last_op' = "resolve"
    /\ UNCHANGED prediction_feedback
    /\ UNCHANGED <<location_input, LearnVars, PredictVars, ServeVars>>

\* the event loop starts the handler of request r, which calls
\* learn_from_history
BeginRequest(r) ==
    /\ EventLoopIdle
    /\ pc[r] = "idle"
    /\ pc' = [pc EXCEPT ![r] = "read"]
    /\ running' = r
    /\ local' = [local EXCEPT ![r].entry = learning_coefficients,
                              ![r].ordinal = learn_calls + 1]
    /\ coef_before' = learning_coefficients
    /\ learn_calls' = learn_calls + 1
    /\ last_op' = "serve"
    /\ UNCHANGED prediction_feedback
    /\ UNCHANGED <<learning_coefficients, history, PredictVars, ResolveVars>>

\* get_recent_predictions(limit=100) and the size test; the read may raise
ReadHistory(r) ==
    /\ running = r
    /\ pc[r] = "read"
    /\ \/ /\ pc' = [pc EXCEPT ![r] = "failed"]
          /\ running' = 0
          /\ local' = [local EXCEPT ![r] = NoLocals]
       \/ /\ local' = [local EXCEPT
                          ![r].recent_predictions = GetRecentPredictions(HistoryLimit)]
          /\ pc' = [pc EXCEPT ![r] =
                       IF Len(GetRecentPredictions(HistoryLimit)) < MinHistory
                       THEN "resolve" ELSE "collect"]
          /\ running' = r
    /\ last_op' = "serve"
    /\ UNCHANGED prediction_feedback
    /\ UNCHANGED <<LearnVars, PredictVars, ResolveVars>>

\* the collection loop
Collect(r) ==
    /\ running = r
    /\ pc[r] = "collect"
    /\ \E loop \in {CollectionLoop(learning_coefficients, local[r].recent_predictions)} :
          /\ learning_coefficients' = loop.coefficients
          /\ IF loop.raised
             THEN /\ pc' = [pc EXCEPT ![r] = "failed"]
                  /\ running' = 0
                  /\ local' = [local EXCEPT ![r] = NoLocals]
             ELSE /\ pc' = [pc EXCEPT ![r] =
                              IF loop.categories = <<>> THEN "resolve" ELSE "update"]
                  /\ running' = r
                  /\ local' = [local EXCEPT ![r].todo = loop.categories]
    /\ last_op' = "serve"
    /\ UNCHANGED prediction_feedback
    /\ UNCHANGED <<history, learn_calls, coef_before, PredictVars, ResolveVars>>

\* one round of the update loop
UpdateOne(r) ==
    LET category == Head(local[r].todo)
        accuracies == CollectAccuracies(local[r].recent_predictions, category,
                                        Len(local[r].recent_predictions))
    IN  /\ running = r
        /\ pc[r] = "update"
        /\ learning_coefficients' =
              IF Len(accuracies) > 0 /\ category \in DOMAIN learning_coefficients
              THEN [learning_coefficients EXCEPT
                      ![category] = AdjustCoefficient(@, Adjustment(accuracies))]
              ELSE learning_coefficients
        /\ local' = [local EXCEPT ![r].todo = Tail(@)]
        /\ pc' = [pc EXCEPT ![r] =
                     IF Tail(local[r].todo) = <<>> THEN "resolve" ELSE "update"]
        /\ running' = r
        /\ last_op' = "serve"
        /\ UNCHANGED prediction_feedback
        /\ UNCHANGED <<history, learn_calls, coef_before, PredictVars, ResolveVars>>

\* mutant: the handler keeping the event loop while the weather is fetched
ResolveLocationHoldingLoop(r) ==
    /\ running = r
    /\ pc[r] = "resolve"
    /\ \E location \in ServeLocations :
          /\ location_input' = location
          /\ corrected_location' =
                IF IsCoordinates(location) THEN location
                ELSE CorrectLocationName(location)
    /\ pc' = [pc EXCEPT ![r] = "await"]
    /\ running' = r
    /\ local' = [local EXCEPT ![r] = [NoLocals EXCEPT !.ordinal = local[r].ordinal,
                                                      !.left = learning_coefficients]]
    /\ last_op' = "serve"
    /\ UNCHANGED prediction_feedback
    /\ UNCHANGED <<LearnVars, PredictVars>>

\* learn_from_history has returned; the location is corrected and the
\* handler awaits the weather service
ResolveLocation(r) ==
    /\ running = r
    /\ pc[r] = "resolve"
    /\ \E location \in ServeLocations :
          /\ location_input' = location
          /\ corrected_location' =
                IF IsCoordinates(location) THEN location
                ELSE CorrectLocationName(location)
    /\ pc' = [pc EXCEPT ![r] = "await"]
    /\ running' = 0
    /\ local' = [local EXCEPT ![r] = [NoLocals EXCEPT !.ordinal = local[r].ordinal,
                                                      !.left = learning_coefficients]]
    /\ last_op' = "serve"
    /\ UNCHANGED prediction_feedback
    /\ UNCHANGED <<LearnVars, PredictVars>>

\* the weather service answers, or fails, and the loop resumes the handler
WeatherArrives(r) ==
    /\ EventLoopIdle
    /\ pc[r] = "await"
    /\ \/ /\ pc' = [pc EXCEPT ![r] = "failed"]
          /\ UNCHANGED <<running, PredictVars>>
       \/ \E items \in ServeObservations :
             /\ raw_weather_data' = [kind |-> "WeatherData", items |-> items]
             /\ weather_data' = NoObservation
             /\ risks' = NoRisks
             /\ predictions' = <<>>
             /\ outcome' = "none"
             /\ pc' = [pc EXCEPT ![r] = "predict"]
             /\ running' = r
    /\ last_op' = "serve"
    /\ UNCHANGED prediction_feedback
    /\ UNCHANGED <<LearnVars, ResolveVars, local>>

\* predict_disasters(weather_data), then save_prediction and the response
PredictAndSave(r) ==
    /\ running = r
    /\ pc[r] = "predict"
    /\ \E res \in {PredictDisasters(raw_weather_data, learning_coefficients)} :
          /\ weather_data' = res.weather_data
          /\ risks' = res.risks
          /\ predictions' = res.predictions
          /\ outcome' = res.outcome
          /\ pc' = [pc EXCEPT ![r] = IF res.outcome = "raised" THEN "failed" ELSE "done"]
          /\ history' =
                IF res.outcome = "raised" THEN history
                ELSE <<[accuracy |-> NoAccuracy,
                        predictions |->
                            [i \in 1..Len(res.predictions) |->
                                [disaster_type |-> res.predictions[i].disaster_type]]]>>
                     \o history
    /\ local' = [local EXCEPT ![r].scored_with = learning_coefficients]
    /\ running' = 0
    /\ last_op' = "serve"
    /\ UNCHANGED prediction_feedback
    /\ UNCHANGED <<learning_coefficients, learn_calls, coef_before, raw_weather_data,
                   ResolveVars>>

\* the response of request r, or its HTTP error, has been sent; the next
\* request is served in its place
Respond(r) ==
    /\ pc[r] \in {"done", "failed"}
    /\ pc' = [pc EXCEPT ![r] = "idle"]
    /\ local' = [local EXCEPT ![r] = NoLocals]
    /\ last_op' = "serve"
    /\ UNCHANGED <<LearnVars, PredictVars, ResolveVars, running, prediction_feedback>>

\* the position in `history` (newest first) of the row with the given id;
\* ids are given in the order of insertion, from 1
RowOf(prediction_id) == Len(history) - prediction_id + 1

\* mutant: /api/feedback also writing the accuracy column of the prediction
SubmitFeedbackUpdatingAccuracy(prediction_id, feedback_type, feedback_value) ==
    /\ EventLoopIdle
    /\ Len(prediction_feedback) < MaxFeedback
    /\ prediction_feedback' =
          Append(prediction_feedback,
                 [prediction_id |-> prediction_id, feedback_type |-> feedback_type,
                  feedback_value |-> feedback_value])
    /\ history' = IF prediction_id \in 1..Len(history)
                  THEN [history EXCEPT ![RowOf(prediction_id)].accuracy = Frac(9, 10)]
                  ELSE history
    /\ last_op' = "feedback"
    /\ UNCHANGED <<learning_coefficients, learn_calls, coef_before, PredictVars,
                   ResolveVars, ServeVars>>

\* POST /api/feedback: storage.save_feedback inserts one row into the
\* prediction_feedback table
SubmitFeedback(prediction_id, feedback_type, feedback_value) ==
    /\ EventLoopIdle
    /\ Len(prediction_feedback) < MaxFeedback
    /\ prediction_feedback' =
          Append(prediction_feedback,
                 [prediction_id |-> prediction_id, feedback_type |-> feedback_type,
                  feedback_value |-> feedback_value])
    /\ last_op' = "feedback"
    /\ UNCHANGED <<LearnVars, PredictVars, ResolveVars, ServeVars>>

\* GET /api/history: storage.get_recent_predictions(limit) reads the table
GetPredictionHistory(limit) ==
    /\ EventLoopIdle
    /\ last_op # "history"
    /\ last_op' = "history"
    /\ UNCHANGED <<LearnVars, PredictVars, ResolveVars, ServeVars, prediction_feedback>>

\* GET /api/weather: the weather service is asked and its answer returned
GetWeather ==
    /\ EventLoopIdle
    /\ last_op # "weather"
    /\ last_op' = "weather"
    /\ UNCHANGED <<LearnVars, PredictVars, ResolveVars, ServeVars, prediction_feedback>>

(***************************************************************************)
(* Specifications.                                                         *)
(***************************************************************************)
InitRequest ==
    /\ raw_weather_data = [kind |-> "dict", items |-> <<>>]
    /\ weather_data = NoObservation
    /\ risks = NoRisks
    /\ predictions = <<>>
    /\ outcome = "none"
    /\ location_input = <<>>
    /\ corrected_location = <<>>
    /\ pc = [r \in Requests |-> "idle"]
    /\ running = 0
    /\ local = [r \in Requests |-> NoLocals]
    /\ prediction_feedback = <<>>

\* a new predictor over an empty predictions table
Init ==
    /\ learning_coefficients = InitCoefficients
    /\ history = <<>>
    /\ learn_calls = 0
    /\ coef_before = InitCoefficients
    /\ last_op = "init"
    /\ InitRequest

\* learning interleaved with rows being stored
NextLearn ==
    \/ \E r \in RecordKinds : StoreRecord(r)
    \/ learn_calls < MaxLearnCalls /\ LearnFromHistory

SpecLearn == Init /\ [][NextLearn]_vars

\* a new predictor over a predictions table that already holds rows (the
\* table is a file that outlives the process), learning again and again
InitRepeat ==
    /\ learning_coefficients = InitCoefficients
    /\ history \in SeqsUpTo(RecordKinds, MaxHistory)
    /\ learn_calls = 0
    /\ coef_before = InitCoefficients
    /\ last_op = "init"
    /\ InitRequest

NextRepeat == learn_calls < MaxRepeat /\ LearnFromHistory

SpecRepeat == InitRepeat /\ [][NextRepeat]_vars

\* scoring under coefficients that learning has left
InitPredict ==
    /\ \E c \in CoefChoices : learning_coefficients = [f \in Families |-> c]
    /\ history = <<>>
    /\ learn_calls = 0
    /\ coef_before = learning_coefficients
    /\ last_op = "init"
    /\ InitRequest

NextPredict ==
    \/ \E kind \in {"dict", "WeatherData", "other"} : NewRequest(kind)
    \/ \E i \in 1..Len(InputMenu) : AddItem(i)
    \/ Predict

SpecPredict == InitPredict /\ [][NextPredict]_vars

\* one correct_location_name call on each string of LocationInputs
InitResolve ==
    /\ learning_coefficients = InitCoefficients
    /\ history = <<>>
    /\ learn_calls = 0
    /\ coef_before = InitCoefficients
    /\ last_op = "init"
    /\ raw_weather_data = [kind |-> "dict", items |-> <<>>]
    /\ weather_data = NoObservation
    /\ risks = NoRisks
    /\ predictions = <<>>
    /\ outcome = "none"
    /\ location_input \in LocationInputs
    /\ corrected_location = <<>>
    /\ pc = [r \in Requests |-> "idle"]
    /\ running = 0
    /\ local = [r \in Requests |-> NoLocals]
    /\ prediction_feedback = <<>>

NextResolve == CorrectLocation

SpecResolve == InitResolve /\ [][NextResolve]_vars

\* /api/predict requests served concurrently over a stored table
InitServe ==
    /\ learning_coefficients = InitCoefficients
    /\ history \in StoredTables
    /\ learn_calls = 0
    /\ coef_before = InitCoefficients
    /\ last_op = "init"
    /\ InitRequest

NextServe ==
    \E r \in Requests :
        \/ BeginRequest(r)
        \/ ReadHistory(r)
        \/ Collect(r)
        \/ UpdateOne(r)
        \/ ResolveLocation(r)
        \/ WeatherArrives(r)
        \/ PredictAndSave(r)

SpecServe == InitServe /\ [][NextServe]_vars

\* the four endpoints called in any order over a new database.  The
\* /api/predict requests follow one another (their interleaving is
\* SpecServe's subject), the other endpoints are served whenever the event
\* loop is idle, also while a prediction awaits its weather.  The update
\* loop of learn_from_history is left out of the steps because no state of
\* this specification enters it (C25_ApiNeverWritesAccuracy states that).
FeedbackInputs == {<<1, "accuracy", "0.9">>, <<99, "relevance", "high">>}

NextApi ==
    \/ \E r \in {1} :
          \/ learn_calls < MaxPredicts /\ BeginRequest(r)
          \/ ReadHistory(r)
          \/ Collect(r)
          \/ ResolveLocation(r)
          \/ WeatherArrives(r)
          \/ PredictAndSave(r)
          \/ Respond(r)
    \/ \E f \in FeedbackInputs : SubmitFeedback(f[1], f[2], f[3])
    \/ \E limit \in {1, 10} : GetPredictionHistory(limit)
    \/ GetWeather

SpecApi == Init /\ [][NextApi]_vars

(***************************************************************************)
(* Properties.                                                             *)
(***************************************************************************)
IsSentinel(p) == p.disaster_type = "No Significant Hazards"

Probabilities == {predictions[i].probability : i \in 1..Len(predictions)}

FeedbackCount(h) == Cardinality({i \in 1..Len(h) : h[i].accuracy # NoAccuracy})

SixOf(r) == [i \in 1..6 |-> r]

FloodRecord09 ==
    [accuracy |-> Frac(9, 10),
     predictions |-> <<[disaster_type |-> "Severe Flood"],
                       [disaster_type |-> "Flash Flood"]>>]

FloodRecord01 ==
    [accuracy |-> Frac(1, 10),
     predictions |-> <<[disaster_type |-> "Moderate Flood"],
                       [disaster_type |-> "Heat Wave"],
                       [disaster_type |-> "Tsunami"]>>]

AtBound(c) == c = Frac(1, 2) \/ c = Frac(3, 2)

\* C1: every list predict_disasters returns is non-empty, and the sentinel
\* 'No Significant Hazards' (probability 0.8, severity Low) is in it exactly
\* when no other finding was produced, and then it is the only element.
C1_SentinelIffNoFinding ==
    outcome = "returned" =>
        /\ predictions # <<>>
        /\ (\E i \in 1..Len(predictions) : IsSentinel(predictions[i]))
              <=> (\A i \in 1..Len(predictions) : IsSentinel(predictions[i]))
        /\ (\E i \in 1..Len(predictions) : IsSentinel(predictions[i])) =>
              predictions = <<[disaster_type |-> "No Significant Hazards",
                               probability |-> Frac(8, 10), severity |-> "Low"]>>

\* C1 witness: a call on a non-empty dictionary returned the sentinel alone
C1_Witness ==
    /\ outcome = "returned"
    /\ raw_weather_data.items # <<>>
    /\ Len(predictions) = 1 /\ IsSentinel(predictions[1])

\* C2: predict_disasters never raises, whatever the raw input is.
C2_NeverRaises == outcome # "raised"

\* C3: every finding of a returned list has a probability in [0, 0.95].
C3_ProbabilityRange ==
    outcome = "returned" =>
        \A p \in Probabilities : RLe(R(0), p) /\ RLe(p, Frac(95, 100))

\* C4: every coefficient starts at 1.0 and, after any sequence of
\* learn_from_history calls, every one of the seven stays within [0.5, 1.5].
C4_CoefficientBounds ==
    /\ DOMAIN learning_coefficients = Families
    /\ \A f \in Families :
          /\ RLe(Frac(1, 2), learning_coefficients[f])
          /\ RLe(learning_coefficients[f], Frac(3, 2))
          /\ learn_calls = 0 => learning_coefficients[f] = R(1)

\* C4 witness: a learn call whose sum left the range was clamped to 1.5
C4_Witness ==
    /\ last_op = "learn"
    /\ learning_coefficients["flood"] = Frac(3, 2)
    /\ coef_before["flood"] = Frac(37, 25)

\* C5 as claimed: a second learn_from_history call in a row over the same
\* history leaves the coefficients as the first call left them.
C5_SecondCallChangesNothing ==
    [][(last_op = "learn" /\ last_op' = "learn")
          => learning_coefficients' = learning_coefficients]_vars

\* C5 as amended: a second learn_from_history call in a row over the same
\* history changes every coefficient by the amount the first call changed
\* it, unless the coefficient is at a clamp bound before or after the call.
C5_SecondCallRepeatsStep ==
    [][(last_op = "learn" /\ last_op' = "learn") =>
          \A f \in Families :
              \/ AtBound(learning_coefficients[f])
              \/ AtBound(learning_coefficients'[f])
              \/ RSub(learning_coefficients'[f], learning_coefficients[f])
                    = RSub(learning_coefficients[f], coef_before[f])]_vars

\* C5 witness: two calls over six flood rows of accuracy 0.9 gave 1.04, 1.08
C5_Witness ==
    /\ last_op = "learn" /\ learn_calls = 2
    /\ history = SixOf(FloodRecord09)
    /\ coef_before["flood"] = Frac(26, 25)
    /\ learning_coefficients["flood"] = Frac(27, 25)

\* C6: with fewer than 5 feedback-bearing rows in the history, a
\* learn_from_history call leaves every coefficient unchanged.
C6_SkipBelowFiveFeedback ==
    (last_op = "learn" /\ FeedbackCount(history) < 5)
        => learning_coefficients = coef_before

\* C7: when the update is not skipped, a family with at least one data point
\* gets max(0.5, min(1.5, old + (mean - 0.5) * 0.1)) and a family with none
\* keeps its coefficient; six flood rows of mean accuracy 0.9 move flood
\* from 1.0 to 1.04, and of mean accuracy 0.1 to 0.96.
C7_UpdateRule ==
    (last_op = "learn" /\ Len(history) >= 5) =>
        /\ \A f \in Families :
              \A acc \in {CollectAccuracies(history, f, Len(history))} :
                  IF Len(acc) > 0
                  THEN \A mean \in {RMul(RSum(acc), Frac(1, Len(acc)))} :
                          learning_coefficients[f] =
                              RMax(Frac(1, 2), RMin(Frac(3, 2),
                                  RAdd(coef_before[f],
                                       RMul(RSub(mean, Frac(1, 2)), Frac(1, 10)))))
                  ELSE learning_coefficients[f] = coef_before[f]
        /\ (history = SixOf(FloodRecord09) /\ coef_before["flood"] = R(1))
              => learning_coefficients["flood"] = Frac(104, 100)
        /\ (history = SixOf(FloodRecord01) /\ coef_before["flood"] = R(1))
              => learning_coefficients["flood"] = Frac(96, 100)

\* C7 witness: the first update over six flood rows of accuracy 0.9
C7_Witness ==
    /\ last_op = "learn"
    /\ history = SixOf(FloodRecord09)
    /\ coef_before["flood"] = R(1)
    /\ learning_coefficients["flood"] = Frac(104, 100)
    /\ learning_coefficients["storm"] = R(1)

C9_CoefficientApplied ==
    outcome # "none" =>
        /\ risks.flood = RMin(Frac(95, 100),
              RMul(FloodBaseRisk(weather_data), learning_coefficients["flood"]))
        /\ risks.heat_wave # NotComputed =>
              risks.heat_wave = RMin(Frac(95, 100),
                  RMul(HeatBaseRisk(weather_data), learning_coefficients["heat_wave"]))
        /\ risks.storm # NotComputed =>
              risks.storm = RMin(Frac(95, 100),
                  RMul(StormBaseSeverity(weather_data), learning_coefficients["storm"]))
        /\ risks.tornado # NotComputed =>
              risks.tornado = RMin(Frac(95, 100),
                  RMul(TornadoBaseRisk(weather_data), learning_coefficients["tornado"]))
        /\ risks.wildfire # NotComputed =>
              risks.wildfire = RMin(Frac(95, 100),
                  RMul(WildfireBaseRisk(weather_data), learning_coefficients["wildfire"]))

\* C10: on every path through _sanitize_input, every attribute of the
\* returned observation that has a declared range lies within that range.
C10_SanitizedInRange ==
    outcome # "none" =>
        \A f \in DOMAIN VALID_RANGES :
            /\ VALID_RANGES[f][1] <= weather_data[f]
            /\ weather_data[f] <= VALID_RANGES[f][2]

\* C11: _validate_weather_data clamps exactly: an attribute with a declared
\* range (lo, hi) becomes lo when below lo, hi when above hi, and is
\* returned unchanged when inside; an attribute without a declared range is
\* returned unchanged; the object passed in is not modified.
C11_ClampsExactly ==
    [][(last_op' = "predict" /\ SanitizePath(raw_weather_data) \in {"object", "dict"}) =>
          /\ raw_weather_data' = raw_weather_data
          /\ \A given \in {ToValidate(raw_weather_data)} :
                \A f \in DOMAIN given :
                    IF f \in DOMAIN VALID_RANGES
                    THEN /\ given[f] < VALID_RANGES[f][1]
                              => weather_data'[f] = VALID_RANGES[f][1]
                         /\ given[f] > VALID_RANGES[f][2]
                              => weather_data'[f] = VALID_RANGES[f][2]
                         /\ (VALID_RANGES[f][1] <= given[f] /\ given[f] <= VALID_RANGES[f][2])
                              => weather_data'[f] = given[f]
                    ELSE weather_data'[f] = given[f]]_vars

\* C11 witness: one validation clamped a temperature of -80 up to -70 and a
\* seismic activity of 12 down to 10, and kept a humidity of 70
C11_Witness ==
    /\ last_op = "predict"
    /\ SanitizePath(raw_weather_data) = "dict"
    /\ ToValidate(raw_weather_data).temperature = -80
    /\ ToValidate(raw_weather_data).seismic_activity = 12
    /\ ToValidate(raw_weather_data).humidity = 70
    /\ weather_data.temperature = -70
    /\ weather_data.seismic_activity = 10
    /\ weather_data.humidity = 70

HydrologicalLabels ==
    {"Severe Flood", "Moderate Flood", "Minor Flood", "Flash Flood", "Urban Flooding"}

MeteorologicalLabels ==
    {"Extreme Heat Wave", "Severe Heat Wave", "Heat Wave", "Severe Storm System",
     "Moderate Storm", "Category N Hurricane/Cyclone", "Tornado Warning",
     "Tornado Watch", "Blizzard", "Winter Storm"}

EarthquakeLabels ==
    {"Minor Earthquake", "Moderate Earthquake", "Major Earthquake", "Extreme Earthquake"}

GeologicalLabels == EarthquakeLabels \cup {"Tsunami"}

EnvironmentalLabels ==
    {"Extreme Fire Danger", "High Fire Danger", "Moderate Fire Danger",
     "Hazardous Air Quality Emergency", "Very Unhealthy Air Quality",
     "Unhealthy Air Quality"}

FamilyRank(p) ==
    IF p.disaster_type \in HydrologicalLabels THEN 1
    ELSE IF p.disaster_type \in MeteorologicalLabels THEN 2
    ELSE IF p.disaster_type \in GeologicalLabels THEN 3
    ELSE IF p.disaster_type \in EnvironmentalLabels THEN 4
    ELSE 0

\* C12: in every list predict_disasters returns, hydrological findings come
\* before meteorological ones, these before geological ones (the earthquake
\* before the Tsunami), and these before environmental ones.
C12_FamilyOrder ==
    outcome = "returned" =>
        \A i, j \in 1..Len(predictions) :
            i < j =>
                /\ FamilyRank(predictions[i]) <= FamilyRank(predictions[j])
                /\ ~(/\ predictions[i].disaster_type = "Tsunami"
                      /\ predictions[j].disaster_type \in EarthquakeLabels)

\* C12 witness: a returned list with findings of three families, an
\* earthquake and its Tsunami among them
C12_Witness ==
    /\ outcome = "returned"
    /\ Cardinality({FamilyRank(predictions[i]) : i \in 1..Len(predictions)}) >= 3
    /\ \E i \in 1..Len(predictions) : predictions[i].disaster_type = "Tsunami"

\* the number a caller's dictionary gives for an attribute (after key
\* normalisation), 0 when it gives none
Given(raw, attr) ==
    LET data == NormalizeKeys(raw.items, Len(raw.items)).data
    IN  IF raw.kind = "dict" /\ attr \in DOMAIN data /\ data[attr].num
        THEN data[attr].v ELSE 0

\* C13: whenever the raw observation has precipitation > 30 and
\* precipitation_intensity > 15 (e.g. 35 and 18), predict_disasters returns a
\* list with a 'Flash Flood' finding of severity 'Severe' and probability
\* min(0.95, 0.6 + (precipitation - 30) * 0.02), which is at least 0.6.
C13_FlashFlood ==
    (/\ outcome # "none"
     /\ SanitizePath(raw_weather_data) = "dict"
     /\ Given(raw_weather_data, "precipitation") > 30
     /\ Given(raw_weather_data, "precipitation_intensity") > 15) =>
        /\ outcome = "returned"
        /\ \E i \in 1..Len(predictions) :
              /\ predictions[i].disaster_type = "Flash Flood"
              /\ predictions[i].severity = "Severe"
              /\ predictions[i].probability =
                    RMin(Frac(95, 100),
                         RAdd(Frac(6, 10),
                              RMul(R(Given(raw_weather_data, "precipitation") - 30),
                                   Frac(2, 100))))
              /\ RLe(Frac(6, 10), predictions[i].probability)

\* C14: whenever the observation has wind_speed > 75, pressure < 980 and
\* sea_surface_temp > 26 (e.g. 80, 975, 27), predict_disasters returns a list
\* with a '... Hurricane/Cyclone' finding of probability 0.9 and severity
\* 'Extreme'.
C14_Hurricane ==
    (/\ outcome # "none"
     /\ SanitizePath(raw_weather_data) = "dict"
     /\ Given(raw_weather_data, "wind_speed") > 75
     /\ Given(raw_weather_data, "pressure") < 980
     /\ Given(raw_weather_data, "pressure") > 0
     /\ Given(raw_weather_data, "sea_surface_temp") > 26) =>
        /\ outcome = "returned"
        /\ \E i \in 1..Len(predictions) :
              /\ predictions[i].disaster_type = "Category N Hurricane/Cyclone"
              /\ predictions[i].probability = Frac(9, 10)
              /\ predictions[i].severity = "Extreme"

FireLabels == {"Extreme Fire Danger", "High Fire Danger", "Moderate Fire Danger"}

\* C15: whenever the observation's humidity is above 60 or its precipitation
\* above 5, _calculate_wildfire_risk returns 0.0 whatever the temperature,
\* wind speed and dry-day count are, and a returned list has no fire-danger
\* finding.
C15_WildfireShortCircuit ==
    (/\ outcome # "none"
     /\ risks.wildfire # NotComputed
     /\ (weather_data.humidity > 60 \/ weather_data.precipitation > 5)) =>
        /\ risks.wildfire = R(0)
        /\ \A i \in 1..Len(predictions) : predictions[i].disaster_type \notin FireLabels

\* C15 witness: 40 degrees after 20 dry days at humidity 70 scored 0.0, where
\* the same observation at humidity 0 scores above the lowest fire tier
C15_Witness ==
    /\ outcome = "returned"
    /\ weather_data.humidity = 70
    /\ weather_data.temperature = 40
    /\ weather_data.consecutive_dry_days = 20
    /\ risks.wildfire = R(0)
    /\ RLt(Frac(4, 10), WildfireBaseRisk([weather_data EXCEPT !.humidity = 0]))

CanonicalNames == {LOCATION_ALIASES[k].name : k \in 1..Len(LOCATION_ALIASES)}

AliasNames ==
    UNION {{LOCATION_ALIASES[k].aliases[i] : i \in 1..Len(LOCATION_ALIASES[k].aliases)} :
              k \in 1..Len(LOCATION_ALIASES)}

\* C16: correct_location_name resolves 'bombay' to 'mumbai' and 'pari' to
\* 'paris', whatever the case and the surrounding blanks, and returns
\* 'zzzqqq123' unchanged, no name or alias reaching the 0.7 cutoff.
C16_AliasesResolve ==
    last_op = "resolve" =>
        /\ Strip(Lower(location_input)) = <<"b","o","m","b","a","y">>
              => corrected_location = <<"m","u","m","b","a","i">>
        /\ Strip(Lower(location_input)) = <<"p","a","r","i">>
              => corrected_location = <<"p","a","r","i","s">>
        /\ location_input = <<"z","z","z","q","q","q","1","2","3">>
              => /\ corrected_location = location_input
                 /\ \A x \in CanonicalNames \cup AliasNames :
                       RLt(Ratio(x, location_input), Frac(7, 10))

\* C16 witness: ' Bombay ' was resolved to 'mumbai'
C16_Witness ==
    /\ last_op = "resolve"
    /\ location_input = <<" ","B","o","m","b","a","y"," ">>
    /\ corrected_location = <<"m","u","m","b","a","i">>

\* C17: correct_location_name returns a canonical name or the input exactly
\* as given, never an alias or another string, and returns a canonical name
\* given as input as it is.
C17_CanonicalOrInput ==
    last_op = "resolve" =>
        /\ corrected_location \in CanonicalNames \cup {location_input}
        /\ corrected_location \notin AliasNames \ CanonicalNames
        /\ location_input \in CanonicalNames => corrected_location = location_input

\* C17 witness: 'Bengalur', no entry of the table, was matched to the alias
\* 'bengaluru' and resolved to the canonical 'bangalore'
C17_Witness ==
    /\ last_op = "resolve"
    /\ location_input = <<"B","e","n","g","a","l","u","r">>
    /\ GetCloseMatches(Strip(Lower(location_input)), AllLocations, Frac(7, 10))
          = << <<"b","e","n","g","a","l","u","r","u">> >>
    /\ corrected_location = <<"b","a","n","g","a","l","o","r","e">>

\* C18: in ATTRIBUTE_ALIASES no canonical name (no value of the table) is
\* itself a key of the table, so there is no self-alias, and normalizing the
\* keys of an already normalized dictionary changes nothing.
C18_NoCanonicalNameIsAKey ==
    /\ \A alias \in DOMAIN ATTRIBUTE_ALIASES :
          ATTRIBUTE_ALIASES[alias] \notin DOMAIN ATTRIBUTE_ALIASES
    /\ (outcome # "none" /\ raw_weather_data.kind = "dict") =>
          \A key \in DOMAIN NormalizeKeys(raw_weather_data.items,
                                          Len(raw_weather_data.items)).data :
              key \in DOMAIN ATTRIBUTE_ALIASES => ATTRIBUTE_ALIASES[key] = key

InLearn(r) == pc[r] \in {"read", "collect", "update"}

\* C19: when /api/predict requests are served concurrently, the
\* learn_from_history steps of different requests are mutually exclusive:
\* none starts while another is under way, and no request scores (reads the
\* coefficients) while an update has reached only some of the families.
C19_UpdatesExclusive ==
    \A r1, r2 \in Requests :
        r1 # r2 =>
            /\ ~(InLearn(r1) /\ InLearn(r2))
            /\ InLearn(r1) => pc[r2] # "predict"

\* C19 witness: an update has adjusted one family and not yet the next,
\* while another request is in flight, awaiting the weather service
C19_Witness ==
    \E r1, r2 \in Requests :
        /\ pc[r1] = "update" /\ pc[r2] = "await"
        /\ local[r1].todo # <<>>
        /\ learning_coefficients["flood"] # local[r1].entry["flood"]
        /\ learning_coefficients["heat_wave"] = local[r1].entry["heat_wave"]
        /\ Head(local[r1].todo) = "heat_wave"

\* C20: when the persistence read fails in learn_from_history, or a record
\* cannot be processed in the collection loop, the request fails and every
\* learning coefficient has the value it had before the call.
C20_FailedReadKeepsCoefficients ==
    [][\A r \in Requests :
          /\ (pc[r] \in {"read", "collect"} /\ pc'[r] = "failed") =>
                /\ learning_coefficients' = local[r].entry
                /\ learning_coefficients' = learning_coefficients
          /\ (/\ pc[r] = "collect" /\ pc'[r] # "collect"
              /\ RaisesAt(local[r].recent_predictions) # 0) => pc'[r] = "failed"]_vars

\* C20 witness: a request failed in the collection loop at the last of six
\* rows, after five rows that carry feedback, and the coefficients are the
\* initial ones
C20_Witness ==
    \E r \in Requests :
        /\ pc[r] = "failed"
        /\ learn_calls = 1
        /\ Len(history) = 6 /\ RaisesAt(history) = 6
        /\ learning_coefficients = InitCoefficients

FloodTierLabels == {"Severe Flood", "Moderate Flood", "Minor Flood"}

HeatTierLabels == {"Extreme Heat Wave", "Severe Heat Wave", "Heat Wave"}

\* the findings of the returned list whose label is in the given set, as
\* pairs of label and probability
TierFindings(labels) ==
    LET InLabels(p) == p.disaster_type \in labels
        found == SelectSeq(predictions, InLabels)
    IN  [i \in 1..Len(found) |-> <<found[i].disaster_type, found[i].probability>>]

\* the tier a risk falls in under strict descending bands
TierExpected(risk, high, mid, low, labels) ==
    IF RLt(high, risk) THEN <<<<labels[1], risk>>>>
    ELSE IF RLt(mid, risk) THEN <<<<labels[2], risk>>>>
    ELSE IF RLt(low, risk) THEN <<<<labels[3], risk>>>>
    ELSE <<>>

\* C21: a returned list holds at most one flood-tier finding and at most one
\* heat-tier finding; the flood one is 'Severe Flood' for a flood risk above
\* 0.8, else 'Moderate Flood' above 0.6, else 'Minor Flood' above 0.4, else
\* there is none; the heat one is 'Extreme Heat Wave' above 0.85, else
\* 'Severe Heat Wave' above 0.7, else 'Heat Wave' above 0.5, else there is
\* none; a risk equal to a band value falls in the lower tier, and the
\* finding's probability is the computed risk.
C21_StrictTiers ==
    outcome = "returned" =>
        /\ TierFindings(FloodTierLabels) =
              TierExpected(risks.flood, Frac(8, 10), Frac(6, 10), Frac(4, 10),
                           <<"Severe Flood", "Moderate Flood", "Minor Flood">>)
        /\ TierFindings(HeatTierLabels) =
              TierExpected(risks.heat_wave, Frac(85, 100), Frac(7, 10), Frac(5, 10),
                           <<"Extreme Heat Wave", "Severe Heat Wave", "Heat Wave">>)

\* C21 witness: a heat risk of exactly 0.85 was reported as 'Severe Heat
\* Wave' with probability 0.85
C21_Witness ==
    /\ outcome = "returned"
    /\ risks.heat_wave = Frac(85, 100)
    /\ TierFindings(HeatTierLabels) = <<<<"Severe Heat Wave", Frac(85, 100)>>>>

\* the earthquake findings of the returned list
EarthquakesReported ==
    LET IsQuake(p) == p.disaster_type \in EarthquakeLabels
    IN  SelectSeq(predictions, IsQuake)

\* the severity the magnitude bands give
QuakeSeverityExpected(magnitude) ==
    IF magnitude < 6 THEN "Minor"
    ELSE IF magnitude < 7 THEN "Moderate"
    ELSE IF magnitude < 8 THEN "Major"
    ELSE "Extreme"

\* C22: a returned list holds an earthquake finding for every validated
\* seismic magnitude of 5.0 or more and none below 5.0; its severity is
\* Minor below 6.0, Moderate below 7.0, Major below 8.0 and Extreme
\* otherwise, and its probability is min(0.95, 0.5 + (magnitude - 5.0) * 0.1).
C22_EarthquakeFromFive ==
    (outcome = "returned" /\ HasAttr(weather_data, "seismic_activity")) =>
        LET magnitude == weather_data.seismic_activity
        IN  IF magnitude >= 5
            THEN /\ Len(EarthquakesReported) = 1
                 /\ EarthquakesReported[1].severity = QuakeSeverityExpected(magnitude)
                 /\ EarthquakesReported[1].probability =
                       RMin(Frac(95, 100),
                            RAdd(Frac(5, 10), RMul(R(magnitude - 5), Frac(1, 10))))
            ELSE EarthquakesReported = <<>>

\* positions of the given label in the returned list
PositionsOf(label) == {i \in 1..Len(predictions) : predictions[i].disaster_type = label}

\* C23: a 'Tsunami' finding is in a returned list only if the validated
\* seismic magnitude is above 6.5 and coastal_proximity is below 100, and
\* then an earthquake finding stands immediately before it; an observation
\* with the default coastal_proximity (9999) never gets one.
C23_TsunamiGuard ==
    outcome = "returned" =>
        /\ \A i \in PositionsOf("Tsunami") :
              /\ 2 * weather_data.seismic_activity > 13
              /\ weather_data.coastal_proximity < 100
              /\ i > 1
              /\ predictions[i - 1].disaster_type \in EarthquakeLabels
        /\ weather_data.coastal_proximity = 9999 => PositionsOf("Tsunami") = {}

\* C23 witness: magnitude 8 at 50 units from the coast gave 'Extreme
\* Earthquake' followed by 'Tsunami'
C23_Witness ==
    /\ outcome = "returned"
    /\ weather_data.seismic_activity = 8
    /\ weather_data.coastal_proximity = 50
    /\ \E i \in PositionsOf("Tsunami") :
          i > 1 /\ predictions[i - 1].disaster_type = "Extreme Earthquake"

TornadoFallbackExpected(wd) ==
    IF wd.wind_speed > 40 /\ wd.temperature_gradient > 10
    THEN RAdd(Frac(4, 10), RMin(Frac(3, 10), RMul(R(wd.wind_speed - 40), Frac(1, 100))))
    ELSE R(0)

\* C30: no returned list holds a 'Tornado Warning': the observation has
\* neither wind_shear nor cape_value, the tornado risk is the fallback value
\* (0.0, or 0.4 + min(0.3, (wind_speed - 40) * 0.01)), which is at most 0.7,
\* and a 'Tornado Watch' is reported exactly when it is above 0.5.
C30_NoTornadoWarning ==
    outcome = "returned" =>
        /\ PositionsOf("Tornado Warning") = {}
        /\ ~HasAttr(weather_data, "wind_shear") /\ ~HasAttr(weather_data, "cape_value")
        /\ risks.tornado = TornadoFallbackExpected(weather_data)
        /\ RLe(risks.tornado, Frac(7, 10))
        /\ PositionsOf("Tornado Watch") # {} <=> RLt(Frac(5, 10), risks.tornado)

\* C30 witness: wind speed 80 with a temperature gradient of 15 gave the
\* greatest fallback risk, 0.7, reported as 'Tornado Watch'
C30_Witness ==
    /\ outcome = "returned"
    /\ weather_data.wind_speed = 80
    /\ risks.tornado = Frac(7, 10)
    /\ \E i \in PositionsOf("Tornado Watch") : predictions[i].probability = Frac(7, 10)

CategoryOfLabel(label) == MapToCategory(Lower(Chars[label]))

\* the categories of the findings of the rows that carry feedback
CategoriesWithFeedback(h) ==
    UNION {{CategoryOfLabel(h[i].predictions[j].disaster_type) :
               j \in 1..Len(h[i].predictions)} :
           i \in {a \in 1..Len(h) : h[a].accuracy # NoAccuracy}}

\* C24: after any sequence of learn_from_history calls the coefficient
\* mapping has exactly the seven family keys; the labels 'No Significant
\* Hazards', 'Tsunami' and 'Blizzard' map to 'other', which is no key, and a
\* call changes the coefficient of no family other than those its
\* feedback-bearing findings map to.
C24_SevenFamilyKeys ==
    /\ DOMAIN learning_coefficients =
          {"flood", "heat_wave", "storm", "wildfire", "tornado", "earthquake",
           "air_quality"}
    /\ \A label \in {"No Significant Hazards", "Tsunami", "Blizzard"} :
          CategoryOfLabel(label) = "other"
    /\ last_op = "learn" =>
          \A f \in DOMAIN learning_coefficients \cap DOMAIN coef_before :
              f \notin CategoriesWithFeedback(history) =>
                  learning_coefficients[f] = coef_before[f]

\* C24 witness: a call over five or more rows, one of them a feedback-bearing
\* row with a 'Tsunami' finding, changed the flood coefficient and left the
\* earthquake coefficient alone
C24_Witness ==
    /\ last_op = "learn"
    /\ Len(history) >= 5
    /\ "other" \in CategoriesWithFeedback(history)
    /\ learning_coefficients["flood"] # coef_before["flood"]
    /\ learning_coefficients["earthquake"] = coef_before["earthquake"]

\* the number of findings of a row that map to the family
CategoryTable == [label \in DOMAIN Chars |-> CategoryOfLabel(label)]

FindingsOfFamily(record, f) ==
    Cardinality({j \in 1..Len(record.predictions) :
                    CategoryTable[record.predictions[j].disaster_type] = f})

\* over the first n rows of h that carry feedback: the number of findings
\* mapped to f, and the sum of the rows' accuracies, each taken once per
\* such finding
RECURSIVE FindingCount(_, _, _)
FindingCount(h, f, n) ==
    IF n = 0 THEN 0
    ELSE FindingCount(h, f, n - 1)
            + (IF h[n].accuracy = NoAccuracy THEN 0 ELSE FindingsOfFamily(h[n], f))

RECURSIVE FindingWeightedSum(_, _, _)
FindingWeightedSum(h, f, n) ==
    IF n = 0 THEN R(0)
    ELSE RAdd(FindingWeightedSum(h, f, n - 1),
              IF h[n].accuracy = NoAccuracy THEN R(0)
              ELSE RMul(R(FindingsOfFamily(h[n], f)), h[n].accuracy))

\* C28: the mean accuracy of a family is taken over findings, not records:
\* after a call over five or more rows each family with feedback-bearing
\* findings has moved (within the clamp) by (m - 0.5) * 0.1, m being the sum
\* of the rows' accuracies, each counted once per finding of the row mapped
\* to the family, divided by the number of those findings; a row with
\* findings of several families counts in each of them.
C28_MeanOverFindings ==
    (last_op = "learn" /\ Len(history) >= 5) =>
        \A f \in Families :
            LET k == FindingCount(history, f, Len(history))
                m == RMul(FindingWeightedSum(history, f, Len(history)), Frac(1, k))
                moved == RAdd(coef_before[f], RMul(RSub(m, Frac(1, 2)), Frac(1, 10)))
            IN  learning_coefficients[f] =
                   IF k = 0 THEN coef_before[f]
                   ELSE RMax(Frac(1, 2), RMin(Frac(3, 2), moved))

\* C28 witness: one row of accuracy 0.9 with two flood findings and one row
\* of accuracy 0.1 with a flood and a heat finding: the first call takes the
\* flood mean as (0.9 + 0.9 + 0.1) / 3 and leaves 76/75, not the per-record
\* mean 0.5, and moves heat_wave to 24/25
C28_Witness ==
    /\ last_op = "learn"
    /\ learn_calls = 1
    /\ Len(history) >= 5
    /\ FeedbackCount(history) = 2
    /\ FindingCount(history, "flood", Len(history)) = 3
    /\ learning_coefficients["flood"] = Frac(76, 75)
    /\ learning_coefficients["heat_wave"] = Frac(24, 25)

\* the mean accuracy of the findings of family f in the rows of h
MeanOfFamily(h, f) ==
    RMul(FindingWeightedSum(h, f, Len(h)), Frac(1, FindingCount(h, f, Len(h))))

\* (mean - 0.5) * 0.1
StepOfFamily(h, f) == RMul(RSub(MeanOfFamily(h, f), Frac(1, 2)), Frac(1, 10))

\* C26: over an unchanged history of five or more rows, a family whose mean
\* accuracy is above 0.5 has, after n calls of learn_from_history, the
\* coefficient 1 + n * (mean - 0.5) * 0.1 as long as that is below 1.5 and
\* 1.5 from then on (each call adds the same step, and at 1.5 it stays); a
\* mean below 0.5 lowers it in the same way to 0.5 where it stays, and a
\* mean of exactly 0.5 leaves it at 1.0 for ever.
C26_SameStepThenStays ==
    Len(history) >= 5 =>
        \A f \in Families :
            FindingCount(history, f, Len(history)) > 0 =>
                LET step == StepOfFamily(history, f)
                    walked == RAdd(R(1), RMul(R(learn_calls), step))
                IN  /\ RLt(R(0), step) =>
                          learning_coefficients[f] = RMin(Frac(3, 2), walked)
                    /\ RLt(step, R(0)) =>
                          learning_coefficients[f] = RMax(Frac(1, 2), walked)
                    /\ step = R(0) => learning_coefficients[f] = R(1)
                    /\ (last_op = "learn" /\ AtBound(coef_before[f])) =>
                          learning_coefficients[f] = coef_before[f]

\* C26 witness: the fourteenth call over rows of accuracy 0.9 found the flood
\* coefficient at 1.5, where the thirteenth had brought it, and left it there
C26_Witness ==
    /\ last_op = "learn"
    /\ learn_calls = 14
    /\ Len(history) >= 5
    /\ FindingCount(history, "flood", Len(history)) > 0
    /\ StepOfFamily(history, "flood") = Frac(4, 100)
    /\ coef_before["flood"] = Frac(3, 2)
    /\ learning_coefficients["flood"] = Frac(3, 2)

\* request r2 entered learn_from_history after request r1 did
StartedLater(r2, r1) == local[r2].ordinal > local[r1].ordinal /\ local[r1].ordinal > 0

\* C27: an /api/predict handler does not hold the event loop while it awaits
\* the weather service, between its learn_from_history call and its
\* predict_disasters call; so the coefficients it scores with may differ from
\* those its own learn step left, and when they do, a request started later
\* has run its learn step in between.
C27_SuspendsBetweenLearnAndPredict ==
    \A r \in Requests :
        /\ pc[r] = "await" => running # r
        /\ (pc[r] \in {"await", "predict"} /\ learning_coefficients # local[r].left) =>
              \E r2 \in Requests \ {r} :
                  StartedLater(r2, r) /\ pc[r2] \notin {"idle", "read", "collect"}
        /\ (pc[r] = "done" /\ local[r].scored_with # local[r].left) =>
              \E r2 \in Requests \ {r} : StartedLater(r2, r)

\* C27 witness: a request whose own learn step left the flood coefficient at
\* 0.96 has scored its observation, and saved the result, with the 0.92 that
\* the learn step of a request started later left, and the flood risk it
\* reported is not the one its own coefficients give
C27_Witness ==
    \E r, r2 \in Requests :
        /\ pc[r] = "done" /\ pc[r2] = "await"
        /\ last_op = "serve" /\ outcome = "returned"
        /\ StartedLater(r2, r)
        /\ local[r].left["flood"] = Frac(24, 25)
        /\ local[r].scored_with["flood"] = Frac(23, 25)
        /\ learning_coefficients = local[r].scored_with
        /\ risks.flood = CalculateFloodRisk(weather_data, local[r].scored_with)
        /\ risks.flood # CalculateFloodRisk(weather_data, local[r].left)

\* C25: whatever /api/predict, /api/feedback, /api/history and /api/weather
\* requests are served over a new database, no row of the predictions table
\* has an accuracy: feedback goes to the prediction_feedback table only; so
\* the collection loop of learn_from_history skips every row it reads, the
\* update loop is never entered, and the seven coefficients remain 1.0.
C25_ApiNeverWritesAccuracy ==
    /\ \A i \in 1..Len(history) : history[i].accuracy = NoAccuracy
    /\ \A r \in Requests :
          /\ pc[r] # "update"
          /\ local[r].todo = <<>>
          /\ \A i \in 1..Len(local[r].recent_predictions) :
                local[r].recent_predictions[i].accuracy = NoAccuracy
    /\ learning_coefficients = [f \in Families |-> R(1)]

\* C25 witness: feedback on prediction 1 is in the feedback table, and a
\* learn_from_history call that read five rows has gone through its
\* collection loop without collecting anything
C25_Witness ==
    /\ \E k \in 1..Len(prediction_feedback) :
          /\ prediction_feedback[k].prediction_id = 1
          /\ prediction_feedback[k].feedback_type = "accuracy"
    /\ \E r \in Requests :
          /\ pc[r] = "resolve"
          /\ Len(local[r].recent_predictions) >= 5
          /\ local[r].entry = [f \in Families |-> R(1)]
    /\ learning_coefficients = [f \in Families |-> R(1)]

====
